---- MODULE Spec2Model ----
(***************************************************************************)
(* Proxy-path-aware routing and request authentication of claude-code-hub. *)
(*                                                                         *)
(* Strings are sequences of one-character strings, so that indexOf,        *)
(* substring, startsWith and the regular expressions of the source are     *)
(* computed character by character, as JavaScript computes them.           *)
(***************************************************************************)
EXTENDS Integers, Sequences, FiniteSets, TLC

(***************************************************************************)
(* Bounds of the model                                                     *)
(***************************************************************************)
\* a request path or browser path has at most MaxSegs segments after the prefix
MaxSegs == 2
\* a browser session follows at most MaxHops redirect documents
MaxHops == 2
\* getBasePath is called at most MaxCalls times in one page load
MaxCalls == 2
\* the pathname is changed at most MaxPushes times through the history API
MaxPushes == 1

(***************************************************************************)
(* JavaScript string primitives                                            *)
(***************************************************************************)
\* an absent value (null, undefined, a header that is not set) is the empty
\* tuple, a present value x is <<x>>
Null == <<>>

Some(x) == <<x>>

Empty == <<>>

\* s.substring(a) with 0-based a
substringFrom(s, a) == SubSeq(s, a + 1, Len(s))

\* s.substring(a, b) with 0-based a, exclusive b
substring(s, a, b) == SubSeq(s, a + 1, b)

\* s.startsWith(p)
startsWith(s, p) == Len(p) <= Len(s) /\ SubSeq(s, 1, Len(p)) = p

\* does p occur in s at 0-based offset i
occursAt(s, p, i) == i + Len(p) <= Len(s) /\ SubSeq(s, i + 1, i + Len(p)) = p

\* s.indexOf(p): offset of the FIRST occurrence, -1 when there is none
indexOf(s, p) ==
  IF \E i \in 0..(Len(s) - Len(p)) : occursAt(s, p, i)
  THEN CHOOSE i \in 0..(Len(s) - Len(p)) :
         /\ occursAt(s, p, i)
         /\ \A j \in 0..(i - 1) : ~occursAt(s, p, j)
  ELSE -1

\* s.replace(/\/+$/, ""): drop every trailing slash
RECURSIVE stripTrailingSlashes(_)
stripTrailingSlashes(s) ==
  IF s # Empty /\ s[Len(s)] = "/"
  THEN stripTrailingSlashes(SubSeq(s, 1, Len(s) - 1))
  ELSE s

Digits == {"0", "1", "2", "3", "4", "5", "6", "7", "8", "9"}

(***************************************************************************)
(* Configuration tables                                                    *)
(***************************************************************************)
zhCN == <<"z", "h", "-", "C", "N">>
zhTW == <<"z", "h", "-", "T", "W">>
en == <<"e", "n">>
ja == <<"j", "a">>
ru == <<"r", "u">>

\* the enumerated locale codes, in the order the code scans them
SUPPORTED_LOCALES == <<zhCN, zhTW, en, ja, ru>>

LocaleSet == {SUPPORTED_LOCALES[i] : i \in 1..Len(SUPPORTED_LOCALES)}

\* routing.defaultLocale
defaultLocale == zhCN

APP_ROUTES ==
  << <<"/", "d", "a", "s", "h", "b", "o", "a", "r", "d">>,
     <<"/", "s", "e", "t", "t", "i", "n", "g", "s">>,
     <<"/", "l", "o", "g", "i", "n">>,
     <<"/", "l", "o", "g", "o", "u", "t">>,
     <<"/", "m", "y", "-", "u", "s", "a", "g", "e">>,
     <<"/", "u", "s", "a", "g", "e", "-", "d", "o", "c">>,
     <<"/", "i", "n", "t", "e", "r", "n", "a", "l">>,
     <<"/", "a", "p", "i">>,
     <<"/", "v", "1">>,
     <<"/", "v", "1", "b", "e", "t", "a">>,
     <<"/", "_", "n", "e", "x", "t">> >>

knownPaths ==
  << <<"/", "a", "p", "i", "/">>,
     <<"/", "v", "1", "/">>,
     <<"/", "_", "n", "e", "x", "t", "/">> >>

\* the alternatives of /^\/(zh-CN|zh-TW|en|ja|ru|api|v1|_next)(\/|$)/
knownRootSegments ==
  LocaleSet \cup { <<"a", "p", "i">>, <<"v", "1">>, <<"_", "n", "e", "x", "t">> }

PUBLIC_PATH_PATTERNS ==
  << <<"/", "l", "o", "g", "i", "n">>,
     <<"/", "u", "s", "a", "g", "e", "-", "d", "o", "c">>,
     <<"/", "a", "p", "i", "/", "a", "u", "t", "h", "/", "l", "o", "g", "i", "n">>,
     <<"/", "a", "p", "i", "/", "a", "u", "t", "h", "/", "l", "o", "g", "o", "u", "t">> >>

READ_ONLY_PATH_PATTERNS == << <<"/", "m", "y", "-", "u", "s", "a", "g", "e">> >>

API_PROXY_PATH == <<"/", "v", "1">>

NEXT_INTERNAL_PATH == <<"/", "_", "n", "e", "x", "t">>

FAVICON_PATH == <<"/", "f", "a", "v", "i", "c", "o", "n", ".", "i", "c", "o">>

DEFAULT_FROM == <<"/", "d", "a", "s", "h", "b", "o", "a", "r", "d">>

LOGIN_SEGMENT == <<"/", "l", "o", "g", "i", "n">>

(***************************************************************************)
(* URLSearchParams serialisation (application/x-www-form-urlencoded)       *)
(***************************************************************************)
Letters ==
  {"a", "b", "c", "d", "e", "f", "g", "h", "i", "j", "k", "l", "m",
   "n", "o", "p", "q", "r", "s", "t", "u", "v", "w", "x", "y", "z",
   "A", "B", "C", "D", "E", "F", "G", "H", "I", "J", "K", "L", "M",
   "N", "O", "P", "Q", "R", "S", "T", "U", "V", "W", "X", "Y", "Z"}

\* the bytes the serialiser leaves alone
FormUnreserved == Letters \cup Digits \cup {"*", "-", ".", "_"}

\* percent codes of the other characters that occur in the modelled paths
percentCode(c) ==
  CASE c = "/" -> <<"%", "2", "F">>
    [] c = "~" -> <<"%", "7", "E">>
    [] c = "%" -> <<"%", "2", "5">>
    [] c = "?" -> <<"%", "3", "F">>
    [] c = "=" -> <<"%", "3", "D">>
    [] c = " " -> <<"+">>

RECURSIVE formEncode(_)
formEncode(s) ==
  IF s = Empty THEN Empty
  ELSE (IF Head(s) \in FormUnreserved THEN <<Head(s)>> ELSE percentCode(Head(s)))
       \o formEncode(Tail(s))

\* URLSearchParams.toString() of a list of <<key, value>> pairs
RECURSIVE searchParamsToString(_)
searchParamsToString(params) ==
  IF params = <<>> THEN Empty
  ELSE formEncode(Head(params)[1]) \o <<"=">> \o formEncode(Head(params)[2])
       \o (IF Tail(params) = <<>> THEN Empty
           ELSE <<"&">> \o searchParamsToString(Tail(params)))

(***************************************************************************)
(* External collaborators                                                  *)
(***************************************************************************)
\* auth-token cookie values: an invalid/expired/disabled key, a key without
\* web-UI login capability, a user key with it, an admin key
Tokens == {"bad", "readonly", "user", "admin"}

NoCookie == "none"

CookieStates == {NoCookie} \cup Tokens

\* a validator that ignores allowReadOnlyAccess and accepts every valid key
validateKey_ignoreOption(token, allowReadOnlyAccess) ==
  CASE token = "user" -> Some([role |-> "user", canLoginWebUi |-> TRUE])
    [] token = "admin" -> Some([role |-> "admin", canLoginWebUi |-> TRUE])
    [] token = "readonly" -> Some([role |-> "user", canLoginWebUi |-> FALSE])
    [] OTHER -> Null

\* validateKey(token, { allowReadOnlyAccess }): a session record or nothing
validateKey(token, allowReadOnlyAccess) ==
  CASE token = "user" -> Some([role |-> "user", canLoginWebUi |-> TRUE])
    [] token = "admin" -> Some([role |-> "admin", canLoginWebUi |-> TRUE])
    [] token = "readonly" ->
         IF allowReadOnlyAccess
         THEN Some([role |-> "user", canLoginWebUi |-> FALSE])
         ELSE Null
    [] OTHER -> Null

\* getSession(): the session of the request's cookie
getSession(token) == validateKey(token, FALSE)

\* a response object: status, Location and Set-Cookie headers, body, and
\* whether it is the object the locale middleware produced
NextResponse_next ==
  [status |-> 200, Location |-> Null, SetCookie |-> Null, body |-> Null,
   intl |-> FALSE]

\* intlMiddleware(request): "continue", or a redirect to a locale-prefixed path
intlMiddleware(pathname) ==
  { [status |-> 200, Location |-> Null, SetCookie |-> Null, body |-> Null,
     intl |-> TRUE],
    [status |-> 307,
     Location |-> Some([origin |-> "http://app",
                        path |-> <<"/">> \o defaultLocale
                                 \o (IF pathname = <<"/">> THEN Empty
                                     ELSE pathname)]),
     SetCookie |-> Null, body |-> Null, intl |-> TRUE] }

(***************************************************************************)
(* Edge gate: src/proxy.ts                                                 *)
(***************************************************************************)
\* the cookie-clearing header of the invalid-session response
CLEAR_AUTH_COOKIE ==
  [name |-> "auth-token", value |-> "", Path |-> "/", Expires |-> "epoch"]

\* a 200 text/html response carrying a redirect document
htmlResponse(targetPath, script, setCookie) ==
  [status |-> 200, Location |-> Null, SetCookie |-> setCookie,
   body |-> Some([targetPath |-> targetPath, script |-> script]),
   intl |-> FALSE]

createRelativeRedirect(targetPath, searchParams) ==
  LET qs == searchParamsToString(searchParams)
      fullTargetPath == IF qs # Empty THEN targetPath \o <<"?">> \o qs
                        ELSE targetPath
  IN htmlResponse(fullTargetPath, "createRelativeRedirect", Null)

\* new URL(location, "http://dummy"): pathname + search, the origin dropped
urlPathAndSearch(location) == location[1].path

\* the redirect of the locale middleware handed on as it is
convertToRelativeRedirect_unconverted(response) == response

convertToRelativeRedirect(response) ==
  IF response.Location = Null THEN response
  ELSE IF response.status < 300 \/ response.status >= 400 THEN response
  ELSE htmlResponse(urlPathAndSearch(response.Location),
                    "convertToRelativeRedirect", Null)

\* pathname.match(/^\/([^/]+)/)?.[1]; undefined is the empty string here, which
\* the pattern never matches
potentialLocale(pathname) ==
  IF Len(pathname) >= 2 /\ pathname[1] = "/" /\ pathname[2] # "/"
  THEN LET rest == substringFrom(pathname, 1)
           slash == indexOf(rest, <<"/">>)
       IN IF slash = -1 THEN rest ELSE substring(rest, 0, slash)
  ELSE Null

isLocaleInPath(pathname) == potentialLocale(pathname) \in LocaleSet

pathWithoutLocale(pathname) ==
  IF isLocaleInPath(pathname)
  THEN substringFrom(pathname, Len(potentialLocale(pathname)) + 1)
  ELSE pathname

isPublicPath(path) ==
  \E i \in 1..Len(PUBLIC_PATH_PATTERNS) :
    path = PUBLIC_PATH_PATTERNS[i] \/ startsWith(path, PUBLIC_PATH_PATTERNS[i])

\* the read-only test matching the pattern itself only
isReadOnlyPath_exact(path) ==
  \E i \in 1..Len(READ_ONLY_PATH_PATTERNS) : path = READ_ONLY_PATH_PATTERNS[i]

isReadOnlyPath(path) ==
  \E i \in 1..Len(READ_ONLY_PATH_PATTERNS) :
    \/ path = READ_ONLY_PATH_PATTERNS[i]
    \/ startsWith(path, READ_ONLY_PATH_PATTERNS[i] \o <<"/">>)

\* an exact comparison in place of the prefix test
isApiProxyPath_exact(pathname) == pathname = API_PROXY_PATH

isApiProxyPath(pathname) == startsWith(pathname, API_PROXY_PATH)

isStaticPath(pathname) ==
  startsWith(pathname, NEXT_INTERNAL_PATH) \/ pathname = FAVICON_PATH

\* the locale of the request dropped from the login path
loginPath_defaultLocale(pathname) == <<"/">> \o defaultLocale \o LOGIN_SEGMENT

\* `/${locale}/login`
loginPath(pathname) ==
  <<"/">>
  \o (IF isLocaleInPath(pathname) THEN potentialLocale(pathname) ELSE defaultLocale)
  \o LOGIN_SEGMENT

\* searchParams.set("from", pathWithoutLocale || "/dashboard")
loginSearchParams(pathname) ==
  << << <<"f", "r", "o", "m">>,
        IF pathWithoutLocale(pathname) # Empty THEN pathWithoutLocale(pathname)
        ELSE DEFAULT_FROM >> >>

missingCookieResponse(pathname) ==
  createRelativeRedirect(loginPath(pathname), loginSearchParams(pathname))

\* the invalid-session document without the Set-Cookie header
invalidSessionResponse_noClear(pathname) ==
  htmlResponse(loginPath(pathname) \o <<"?">>
                 \o searchParamsToString(loginSearchParams(pathname)),
               "invalidSession", Null)

invalidSessionResponse(pathname) ==
  htmlResponse(loginPath(pathname) \o <<"?">>
                 \o searchParamsToString(loginSearchParams(pathname)),
               "invalidSession", Some(CLEAR_AUTH_COOKIE))

(***************************************************************************)
(* The inline scripts of the redirect documents (run in the browser)       *)
(***************************************************************************)
\* does the i-th locale pass the script's test on currentPath: the FIRST
\* occurrence of "/" + locale is followed by "/" or by the end of the string
script_localeHit(currentPath, i) ==
  LET localePattern == <<"/">> \o SUPPORTED_LOCALES[i]
      idx == indexOf(currentPath, localePattern)
  IN /\ idx # -1
     /\ LET afterLocale == substringFrom(currentPath, idx + Len(localePattern))
        IN afterLocale = Empty \/ afterLocale[1] = "/"

\* the loop over locales: basePath after the loop ("" when nothing was found)
script_localeScan(currentPath) ==
  IF \E i \in 1..Len(SUPPORTED_LOCALES) : script_localeHit(currentPath, i)
  THEN LET i == CHOOSE k \in 1..Len(SUPPORTED_LOCALES) :
                  /\ script_localeHit(currentPath, k)
                  /\ \A j \in 1..(k - 1) : ~script_localeHit(currentPath, j)
       IN substring(currentPath, 0,
                    indexOf(currentPath, <<"/">> \o SUPPORTED_LOCALES[i]))
  ELSE Empty

\* the loop over knownPaths: the first pattern found at an offset > 0
script_knownPathScan(currentPath) ==
  IF \E j \in 1..Len(knownPaths) : indexOf(currentPath, knownPaths[j]) > 0
  THEN LET j == CHOOSE k \in 1..Len(knownPaths) :
                  /\ indexOf(currentPath, knownPaths[k]) > 0
                  /\ \A m \in 1..(k - 1) : ~(indexOf(currentPath, knownPaths[m]) > 0)
       IN substring(currentPath, 0, indexOf(currentPath, knownPaths[j]))
  ELSE Empty

\* s.match(/^\/(zh-CN|zh-TW|en|ja|ru|api|v1|_next)(\/|$)/)
matchesKnownRoot(s) ==
  \E seg \in knownRootSegments :
    /\ startsWith(s, <<"/">> \o seg)
    /\ (Len(s) = Len(seg) + 1 \/ s[Len(seg) + 2] = "/")

\* the whole-path fallback of createRelativeRedirect / convertToRelativeRedirect
script_fallback(currentPath) ==
  IF Len(currentPath) > 1
  THEN LET pathWithoutTrailingSlash == stripTrailingSlashes(currentPath)
       IN IF pathWithoutTrailingSlash # Empty
             /\ ~matchesKnownRoot(pathWithoutTrailingSlash)
          THEN pathWithoutTrailingSlash
          ELSE Empty
  ELSE Empty

\* basePath as computed by the script of createRelativeRedirect and of
\* convertToRelativeRedirect
script_basePath(currentPath) ==
  LET b1 == script_localeScan(currentPath)
      b2 == IF b1 = Empty THEN script_knownPathScan(currentPath) ELSE b1
  IN IF b2 = Empty THEN script_fallback(currentPath) ELSE b2

\* basePath as computed by the script of the invalid-session document
script_basePathInvalidSession(currentPath) ==
  LET b1 == script_localeScan(currentPath)
  IN IF b1 = Empty THEN script_knownPathScan(currentPath) ELSE b1

\* fullPath handed to window.location.replace by a redirect document
script_fullPath(doc, currentPath) ==
  (IF doc.script = "invalidSession"
   THEN script_basePathInvalidSession(currentPath)
   ELSE script_basePath(currentPath))
  \o doc.targetPath

\* a path-absolute URL string split into pathname and search
parseUrl(url) ==
  LET q == indexOf(url, <<"?">>)
  IN IF q = -1 THEN [pathname |-> url, search |-> Empty]
     ELSE [pathname |-> substring(url, 0, q), search |-> substringFrom(url, q)]

(***************************************************************************)
(* Base-path resolver: lib/utils/base-path.ts                              *)
(***************************************************************************)
PROXY_SEGMENT == <<"/", "p", "r", "o", "x", "y", "/">>

\* the number of digits of s from 0-based offset `from` on (greedy \d+)
RECURSIVE digitRun(_, _)
digitRun(s, from) ==
  IF from < Len(s) /\ s[from + 1] \in Digits THEN 1 + digitRun(s, from + 1) ELSE 0

\* can /proxy\/\d+(?:\/|$)/ match at offset k
proxyHitAt(s, k) ==
  /\ occursAt(s, PROXY_SEGMENT, k)
  /\ LET d == digitRun(s, k + Len(PROXY_SEGMENT))
         end == k + Len(PROXY_SEGMENT) + d
     IN d >= 1 /\ (end = Len(s) \/ s[end + 1] = "/")

\* currentPath.match(/^(.*?\/proxy\/\d+)(?:\/|$)/): group 1 of the match with
\* the shortest lazy prefix, or no match
proxyMatch(currentPath) ==
  IF \E k \in 0..Len(currentPath) : proxyHitAt(currentPath, k)
  THEN LET k == CHOOSE i \in 0..Len(currentPath) :
                  /\ proxyHitAt(currentPath, i)
                  /\ \A j \in 0..(i - 1) : ~proxyHitAt(currentPath, j)
       IN Some(substring(currentPath, 0,
                 k + Len(PROXY_SEGMENT)
                   + digitRun(currentPath, k + Len(PROXY_SEGMENT))))
  ELSE Null

\* the first loop of cleanBasePath over APP_ROUTES[i..]
RECURSIVE cleanAppRoutes(_, _, _)
cleanAppRoutes(basePath, i, earliestAppRouteIdx) ==
  IF i > Len(APP_ROUTES) THEN earliestAppRouteIdx
  ELSE LET idx == indexOf(basePath, APP_ROUTES[i])
       IN cleanAppRoutes(basePath, i + 1,
            IF idx # -1 /\ (earliestAppRouteIdx = -1 \/ idx < earliestAppRouteIdx)
            THEN idx ELSE earliestAppRouteIdx)

\* the second loop of cleanBasePath over SUPPORTED_LOCALES[i..]
RECURSIVE cleanLocales(_, _, _)
cleanLocales(basePath, i, earliestAppRouteIdx) ==
  IF i > Len(SUPPORTED_LOCALES) THEN earliestAppRouteIdx
  ELSE LET localePattern == <<"/">> \o SUPPORTED_LOCALES[i]
           idx == indexOf(basePath, localePattern)
           afterLocale == substringFrom(basePath, idx + Len(localePattern))
       IN cleanLocales(basePath, i + 1,
            IF /\ idx # -1
               /\ (earliestAppRouteIdx = -1 \/ idx < earliestAppRouteIdx)
               /\ (afterLocale = Empty \/ afterLocale[1] = "/")
            THEN idx ELSE earliestAppRouteIdx)

cleanBasePath(basePath) ==
  IF basePath = Empty THEN Empty
  ELSE LET earliestAppRouteIdx ==
             cleanLocales(basePath, 1, cleanAppRoutes(basePath, 1, -1))
       IN IF earliestAppRouteIdx >= 0
          THEN substring(basePath, 0, earliestAppRouteIdx)
          ELSE basePath

\* the locale loop of getBasePath: the i-th locale passes the segment test
localeHit(currentPath, i) ==
  LET localePattern == <<"/">> \o SUPPORTED_LOCALES[i]
      idx == indexOf(currentPath, localePattern)
  IN /\ idx # -1
     /\ LET afterLocale == substringFrom(currentPath, idx + Len(localePattern))
        IN afterLocale = Empty \/ startsWith(afterLocale, <<"/">>)

\* the resolver without its proxy-port step
getBasePath_noProxyStep(currentPath, cached) ==
  IF cached # Null
  THEN [value |-> cached[1], cache |-> cached]
  ELSE IF \E i \in 1..Len(SUPPORTED_LOCALES) : localeHit(currentPath, i)
  THEN LET i == CHOOSE k \in 1..Len(SUPPORTED_LOCALES) :
                  /\ localeHit(currentPath, k)
                  /\ \A j \in 1..(k - 1) : ~localeHit(currentPath, j)
           idx == indexOf(currentPath, <<"/">> \o SUPPORTED_LOCALES[i])
       IN [value |-> cleanBasePath(substring(currentPath, 0, idx)),
           cache |-> cached]
  ELSE IF \E j \in 1..Len(knownPaths) : indexOf(currentPath, knownPaths[j]) > 0
  THEN LET j == CHOOSE k \in 1..Len(knownPaths) :
                  /\ indexOf(currentPath, knownPaths[k]) > 0
                  /\ \A m \in 1..(k - 1) :
                       ~(indexOf(currentPath, knownPaths[m]) > 0)
       IN [value |-> cleanBasePath(
                       substring(currentPath, 0,
                                 indexOf(currentPath, knownPaths[j]))),
           cache |-> cached]
  ELSE IF /\ Len(currentPath) > 1
          /\ stripTrailingSlashes(currentPath) # Empty
          /\ ~matchesKnownRoot(stripTrailingSlashes(currentPath))
  THEN [value |-> cleanBasePath(stripTrailingSlashes(currentPath)),
        cache |-> cached]
  ELSE [value |-> Empty, cache |-> cached]

\* getBasePath(): the value returned and the module's cachedBasePath after
\* the call, for the browser pathname and the cache before the call
getBasePath(currentPath, cached) ==
  LET pm == proxyMatch(currentPath)
      cleanedProxy == IF pm # Null THEN cleanBasePath(pm[1]) ELSE Empty
  IN IF cached # Null
     THEN [value |-> cached[1], cache |-> cached]
     ELSE IF pm # Null /\ cleanedProxy # Empty
     THEN [value |-> cleanedProxy, cache |-> Some(cleanedProxy)]
     ELSE IF \E i \in 1..Len(SUPPORTED_LOCALES) : localeHit(currentPath, i)
     THEN LET i == CHOOSE k \in 1..Len(SUPPORTED_LOCALES) :
                     /\ localeHit(currentPath, k)
                     /\ \A j \in 1..(k - 1) : ~localeHit(currentPath, j)
              idx == indexOf(currentPath, <<"/">> \o SUPPORTED_LOCALES[i])
          IN [value |-> cleanBasePath(substring(currentPath, 0, idx)),
              cache |-> cached]
     ELSE IF \E j \in 1..Len(knownPaths) : indexOf(currentPath, knownPaths[j]) > 0
     THEN LET j == CHOOSE k \in 1..Len(knownPaths) :
                     /\ indexOf(currentPath, knownPaths[k]) > 0
                     /\ \A m \in 1..(k - 1) :
                          ~(indexOf(currentPath, knownPaths[m]) > 0)
          IN [value |-> cleanBasePath(
                          substring(currentPath, 0,
                                    indexOf(currentPath, knownPaths[j]))),
              cache |-> cached]
     ELSE IF /\ Len(currentPath) > 1
             /\ stripTrailingSlashes(currentPath) # Empty
             /\ ~matchesKnownRoot(stripTrailingSlashes(currentPath))
     THEN [value |-> cleanBasePath(stripTrailingSlashes(currentPath)),
           cache |-> cached]
     ELSE [value |-> Empty, cache |-> cached]

(***************************************************************************)
(* Client-side forced redirect: components/client-redirect.tsx             *)
(***************************************************************************)
\* can /\/${locale}(?:\/|$)/ match at offset k
localeSegmentAt(s, locale, k) ==
  /\ occursAt(s, <<"/">> \o locale, k)
  /\ (k + 1 + Len(locale) = Len(s) \/ s[k + Len(locale) + 2] = "/")

\* currentPath.match(new RegExp(`^(.*?)/${locale}(?:/|$)`)): group 1
localePatternMatch(currentPath, locale) ==
  IF \E k \in 0..Len(currentPath) : localeSegmentAt(currentPath, locale, k)
  THEN LET k == CHOOSE i \in 0..Len(currentPath) :
                  /\ localeSegmentAt(currentPath, locale, i)
                  /\ \A j \in 0..(i - 1) : ~localeSegmentAt(currentPath, locale, j)
       IN Some(substring(currentPath, 0, k))
  ELSE Null

\* the target appended as it is, without the leading slash added
ClientRedirect_fullPath_rawTo(currentPath, to, locale) ==
  LET match == localePatternMatch(currentPath, locale)
      basePath == IF match # Null THEN match[1] ELSE Empty
  IN basePath \o <<"/">> \o locale \o to

\* the URL assigned to window.location.href by the effect of ClientRedirect
ClientRedirect_fullPath(currentPath, to, locale) ==
  LET match == localePatternMatch(currentPath, locale)
      basePath == IF match # Null THEN match[1] ELSE Empty
      normalizedTo == IF startsWith(to, <<"/">>) THEN to ELSE <<"/">> \o to
  IN basePath \o <<"/">> \o locale \o normalizedTo

(***************************************************************************)
(* Inputs: path segments, request paths, reverse-proxy prefixes            *)
(***************************************************************************)
Segs ==
  { en, zhTW,
    <<"e", "n", "v">>,
    <<"d", "a", "s", "h", "b", "o", "a", "r", "d">>,
    <<"l", "o", "g", "i", "n">>,
    <<"m", "y", "-", "u", "s", "a", "g", "e">>,
    <<"a", "p", "i">>,
    <<"v", "1">>,
    <<"_", "n", "e", "x", "t">>,
    <<"f", "a", "v", "i", "c", "o", "n", ".", "i", "c", "o">> }

\* every path of at most n segments, without a trailing slash
RECURSIVE segPaths(_)
segPaths(n) ==
  IF n = 0 THEN {Empty}
  ELSE segPaths(n - 1)
       \cup {p \o <<"/">> \o sg : p \in segPaths(n - 1), sg \in Segs}

\* the paths a browser can ask for: "/", "/a", "/a/", "/a/b", "/a/b/", ...
RequestPaths ==
  {<<"/">>}
  \cup (segPaths(MaxSegs) \ {Empty})
  \cup {p \o <<"/">> : p \in segPaths(MaxSegs) \ {Empty}}

\* the prefixes under which the reverse proxy serves the application
Prefixes ==
  { Empty,
    <<"/", "p", "r", "o", "x", "y", "/", "4", "0", "0", "0">>,
    <<"/", "e", "n", "v">> }

(***************************************************************************)
(* State                                                                   *)
(***************************************************************************)
VARIABLES
  prefix,     \* the reverse proxy's path prefix, unknown to the server
  cookie,     \* the browser's auth-token cookie: NoCookie or a token
  location,   \* window.location: [pathname, search]
  phase,      \* "idle", "navigating", "requested", "responded", "page",
              \* "outside", "stopped"
  request,    \* the request the gate is handling: [pathname, cookie]
  response,   \* the gate's response to it
  calls,      \* the collaborator calls the gate made for this request
  hops,       \* redirect documents followed since the user's navigation
  cachedBasePath,  \* module state of base-path.ts: Null or Some(string)
  results,    \* the getBasePath calls of this page load: [path, value]
  redirect,   \* the mounted ClientRedirect: Null or Some([to, locale, from, href])
  pushes,     \* history.pushState calls of this page load
  fetchPatch, \* fetch-interceptor module state: [isPatched, basePath] and
              \* the base paths of the wrappers installed on window.fetch
  navPatch,   \* navigation-interceptor module state: [isPatched, basePath]
              \* and the base paths of the wrappers installed on history
  lastOp,     \* the last operation of the page's client runtime
  dom         \* the document's anchor, the observer's undelivered mutation
              \* records and the pending timeouts

gateVars == <<request, response, calls, hops>>

clientVars == <<cachedBasePath, results, redirect, pushes>>

runtimeVars == <<fetchPatch, navPatch, lastOp, dom>>

vars == <<prefix, cookie, location, phase, request, response, calls, hops,
          cachedBasePath, results, redirect, pushes,
          fetchPatch, navPatch, lastOp, dom>>

\* the collaborator calls of one run: the locale response obtained, and the
\* validator's argument and answer
NoCalls == [intl |-> Null, validate |-> Null]

NoRequest == [pathname |-> Empty, cookie |-> NoCookie]

NoResponse == [status |-> 0, Location |-> Null, SetCookie |-> Null,
               body |-> Null, intl |-> FALSE]

\* isPatched = false and no base path captured yet
NotPatched == [isPatched |-> FALSE, basePath |-> Null, wrappers |-> <<>>]

\* a document without the anchor, no mutation record undelivered, no timeout
\* pending
NoDom == [anchor |-> Null, original |-> Null, edits |-> 0, records |-> 0,
          timers |-> <<>>]

\* the client runtime of a page before any of its code has run
RuntimeIdle ==
  /\ fetchPatch = NotPatched
  /\ navPatch = NotPatched
  /\ dom = NoDom
  /\ lastOp = Null

Init ==
  /\ prefix \in Prefixes
  /\ cookie \in CookieStates
  /\ location = [pathname |-> Empty, search |-> Empty]
  /\ phase = "idle"
  /\ request = NoRequest
  /\ response = NoResponse
  /\ calls = NoCalls
  /\ hops = 0
  /\ cachedBasePath = Null
  /\ results = <<>>
  /\ redirect = Null
  /\ pushes = 0
  /\ RuntimeIdle

(***************************************************************************)
(* Browser and reverse proxy                                               *)
(***************************************************************************)
\* the user opens prefix + path
UserNavigate(path) ==
  /\ phase = "idle"
  /\ location' = [pathname |-> prefix \o path, search |-> Empty]
  /\ phase' = "navigating"
  /\ hops' = 0
  /\ UNCHANGED <<prefix, cookie, request, response, calls>>
  /\ UNCHANGED clientVars
  /\ UNCHANGED runtimeVars

\* is the URL served by the application behind the reverse proxy
underPrefix(pathname) ==
  /\ startsWith(pathname, prefix)
  /\ (Len(pathname) = Len(prefix) \/ pathname[Len(prefix) + 1] = "/")

\* the browser requests window.location; the reverse proxy strips its prefix
SendRequest ==
  /\ phase = "navigating"
  /\ IF underPrefix(location.pathname)
     THEN /\ request' =
               [pathname |-> IF Len(location.pathname) = Len(prefix)
                             THEN <<"/">>
                             ELSE substringFrom(location.pathname, Len(prefix)),
                cookie |-> cookie]
          /\ phase' = "requested"
     ELSE /\ request' = NoRequest
          /\ phase' = "outside"
  /\ response' = NoResponse
  /\ calls' = NoCalls
  /\ UNCHANGED <<prefix, cookie, location, hops>>
  /\ UNCHANGED clientVars
  /\ UNCHANGED runtimeVars

(***************************************************************************)
(* proxyHandler                                                            *)
(***************************************************************************)
\* lines 270-284: the cookie is missing, rejected by the validator, or accepted
authOutcome_skipValidation(req, readOnly) ==
  IF req.cookie = NoCookie THEN "missing" ELSE "ok"

authOutcome(req, readOnly) ==
  IF req.cookie = NoCookie THEN "missing"
  ELSE IF validateKey(req.cookie, readOnly) = Null THEN "invalid"
  ELSE "ok"

\* the response and the collaborator calls of one run of proxyHandler, for
\* the locale response the locale middleware would give
proxyHandlerRun(req, localeResponse) ==
  LET pathname == req.pathname
      stripped == pathWithoutLocale(pathname)
      readOnly == isReadOnlyPath(stripped)
      auth == authOutcome(req, readOnly)
      intlCall == Some(localeResponse)
      validateCall == Some([allowReadOnlyAccess |-> readOnly,
                            session |-> validateKey(req.cookie, readOnly)])
  IN IF isApiProxyPath(pathname)
     THEN [response |-> NextResponse_next, calls |-> NoCalls]
     ELSE IF isStaticPath(pathname)
     THEN [response |-> NextResponse_next, calls |-> NoCalls]
     ELSE IF isPublicPath(stripped)
     THEN [response |-> convertToRelativeRedirect(localeResponse),
           calls |-> [intl |-> intlCall, validate |-> Null]]
     ELSE IF auth = "missing"
     THEN [response |-> missingCookieResponse(pathname),
           calls |-> [intl |-> intlCall, validate |-> Null]]
     ELSE IF auth = "invalid"
     THEN [response |-> invalidSessionResponse(pathname),
           calls |-> [intl |-> intlCall, validate |-> validateCall]]
     ELSE [response |-> convertToRelativeRedirect(localeResponse),
           calls |-> [intl |-> intlCall, validate |-> validateCall]]

proxyHandler ==
  /\ phase = "requested"
  /\ \E localeResponse \in intlMiddleware(request.pathname) :
       LET run == proxyHandlerRun(request, localeResponse)
       IN /\ response' = run.response
          /\ calls' = run.calls
  /\ phase' = "responded"
  /\ UNCHANGED <<prefix, cookie, location, request, hops>>
  /\ UNCHANGED clientVars
  /\ UNCHANGED runtimeVars

(***************************************************************************)
(* The browser receives the response                                       *)
(***************************************************************************)
\* Set-Cookie of the response, then document.cookie of the script
cookieAfter(resp, jar) ==
  IF resp.SetCookie # Null THEN NoCookie
  ELSE IF resp.body # Null /\ resp.body[1].script = "invalidSession" THEN NoCookie
  ELSE jar

LoadResponse ==
  /\ phase = "responded"
  /\ cookie' = cookieAfter(response, cookie)
  /\ IF response.body # Null
     THEN /\ location' = parseUrl(script_fullPath(response.body[1],
                                                  location.pathname))
          /\ hops' = hops + 1
          /\ phase' = IF hops < MaxHops THEN "navigating" ELSE "stopped"
     ELSE /\ phase' = "page"
          /\ UNCHANGED <<location, hops>>
  /\ UNCHANGED <<prefix, request, response, calls>>
  /\ UNCHANGED clientVars
  /\ UNCHANGED runtimeVars

Next ==
  \/ \E path \in RequestPaths : UserNavigate(path)
  \/ SendRequest
  \/ proxyHandler
  \/ LoadResponse

Spec == Init /\ [][Next]_vars

(***************************************************************************)
(* Properties of the edge gate                                             *)
(***************************************************************************)
\* the gate has answered `request` with `response`
Answered == phase = "responded"

\* the request is neither an API-proxy path nor a static asset, and its
\* locale-stripped path is not public
ProtectedRequest ==
  /\ ~startsWith(request.pathname, <<"/", "v", "1">>)
  /\ ~startsWith(request.pathname, <<"/", "_", "n", "e", "x", "t">>)
  /\ request.pathname # FAVICON_PATH
  /\ ~isPublicPath(pathWithoutLocale(request.pathname))

\* a cookie was sent and the validator returned a session for it
SessionReturned ==
  /\ request.cookie # NoCookie
  /\ calls.validate # Null
  /\ calls.validate[1].session # Null

\* a cookie was sent and the validator returned nothing
SessionRejected ==
  /\ request.cookie # NoCookie
  /\ calls.validate # Null
  /\ calls.validate[1].session = Null

\* the response is the locale response: the object itself, or its redirect
\* converted into a document with the same target
IsLocaleResponse ==
  /\ calls.intl # Null
  /\ \/ response = calls.intl[1]
     \/ /\ calls.intl[1].Location # Null
        /\ response.body # Null
        /\ response.body[1].script = "convertToRelativeRedirect"
        /\ response.body[1].targetPath = calls.intl[1].Location[1].path

\* the response is a document that redirects to a login page
IsLoginRedirect ==
  /\ response.status = 200
  /\ response.Location = Null
  /\ response.body # Null
  /\ response.body[1].script \in {"createRelativeRedirect", "invalidSession"}
  /\ indexOf(response.body[1].targetPath,
             <<"/", "l", "o", "g", "i", "n", "?", "f", "r", "o", "m", "=">>) # -1

\* C1: a protected request gets the locale response only if a cookie was sent
\* and the validator returned a session for it; every other protected request
\* gets a login redirect document
C1_ProtectedNeedsSession ==
  (Answered /\ ProtectedRequest) =>
    /\ SessionReturned => IsLocaleResponse /\ ~IsLoginRedirect
    /\ ~SessionReturned => IsLoginRedirect /\ ~IsLocaleResponse

C1_Witness ==
  /\ Answered /\ ProtectedRequest /\ SessionReturned
  /\ calls.intl[1].Location # Null
  /\ IsLocaleResponse

\* C2: a request under /v1 or /_next, or for /favicon.ico, is passed through
\* and neither the locale middleware nor the validator is called, whatever
\* the cookie
C2_PassThrough ==
  (/\ Answered
   /\ \/ startsWith(request.pathname, <<"/", "v", "1">>)
      \/ startsWith(request.pathname, <<"/", "_", "n", "e", "x", "t">>)
      \/ request.pathname
           = <<"/", "f", "a", "v", "i", "c", "o", "n", ".", "i", "c", "o">>)
  => /\ response = NextResponse_next
     /\ calls = NoCalls

C2_Witness ==
  /\ Answered
  /\ startsWith(request.pathname, <<"/", "v", "1", "/">>)
  /\ request.cookie = "bad"
  /\ response = NextResponse_next

\* the first segment of the request path when it is a supported locale
HasLocaleSegment(p, l) ==
  /\ startsWith(p, <<"/">> \o l)
  /\ (Len(p) = Len(l) + 1 \/ p[Len(l) + 2] = "/")

RequestLocale(p) ==
  IF \E l \in LocaleSet : HasLocaleSegment(p, l)
  THEN CHOOSE l \in LocaleSet : HasLocaleSegment(p, l)
  ELSE defaultLocale

\* the request path without that segment
LocaleStripped(p) ==
  IF \E l \in LocaleSet : HasLocaleSegment(p, l)
  THEN substringFrom(p, Len(RequestLocale(p)) + 1)
  ELSE p

AuthFailed == ProtectedRequest /\ ~SessionReturned

LoginTarget(p, from) ==
  <<"/">> \o RequestLocale(p)
  \o <<"/", "l", "o", "g", "i", "n", "?", "f", "r", "o", "m", "=">>
  \o formEncode(from)

\* C3 as stated: the target embedded in the login redirect is
\* /<locale>/login?from=<encoded locale-stripped path>
C3_Original ==
  (Answered /\ AuthFailed) =>
    /\ response.body # Null
    /\ response.body[1].targetPath
         = LoginTarget(request.pathname, LocaleStripped(request.pathname))

\* C3 amended: the same, with from=/dashboard (encoded) when the
\* locale-stripped path is empty
C3_LoginTarget ==
  (Answered /\ AuthFailed) =>
    /\ response.body # Null
    /\ response.body[1].targetPath
         = LoginTarget(request.pathname,
                       IF LocaleStripped(request.pathname) = Empty
                       THEN <<"/", "d", "a", "s", "h", "b", "o", "a", "r", "d">>
                       ELSE LocaleStripped(request.pathname))

\* the unauthenticated request to /zh-TW/dashboard of scenario 3
C3_Witness ==
  /\ Answered
  /\ request.cookie = NoCookie
  /\ request.pathname
       = <<"/", "z", "h", "-", "T", "W", "/", "d", "a", "s", "h", "b", "o", "a", "r", "d">>
  /\ response.body # Null
  /\ response.body[1].targetPath
       = <<"/", "z", "h", "-", "T", "W", "/", "l", "o", "g", "i", "n", "?",
           "f", "r", "o", "m", "=", "%", "2", "F",
           "d", "a", "s", "h", "b", "o", "a", "r", "d">>

\* C4: the response carries the cookie-clearing Set-Cookie header exactly
\* when a cookie was sent and the validator rejected it
C4_ClearCookieIffRejected ==
  Answered =>
    /\ (response.SetCookie # Null) <=> SessionRejected
    /\ response.SetCookie # Null =>
         /\ response.SetCookie[1].name = "auth-token"
         /\ response.SetCookie[1].value = ""
         /\ response.SetCookie[1].Path = "/"
         /\ response.SetCookie[1].Expires = "epoch"

C4_Witness ==
  /\ Answered /\ SessionRejected
  /\ request.cookie = "readonly"
  /\ response.SetCookie # Null

ContainsLocaleSegment(b) ==
  \E l \in LocaleSet : \E j \in 0..Len(b) : HasLocaleSegment(substringFrom(b, j), l)

\* does the string contain an application route as a whole segment
ContainsAppRouteSegment(b) ==
  \E r \in 1..Len(APP_ROUTES) : \E j \in 0..Len(b) :
    /\ startsWith(substringFrom(b, j), APP_ROUTES[r])
    /\ (j + Len(APP_ROUTES[r]) = Len(b) \/ b[j + Len(APP_ROUTES[r]) + 1] = "/")

\* p = B + "/" + <locale> + rest with B the first k characters of p, B without
\* locale segment and without application-route segment
CleanDecomposition(p, k) ==
  /\ \E l \in LocaleSet : HasLocaleSegment(substringFrom(p, k), l)
  /\ ~ContainsLocaleSegment(substring(p, 0, k))
  /\ ~ContainsAppRouteSegment(substring(p, 0, k))

\* C6: on a browser pathname B + "/" + <locale> + rest, with B free of locale
\* and application-route segments, the script of a redirect document
\* navigates to exactly B + targetPath
C6_ScriptResolvesPrefix ==
  [][ (phase = "responded" /\ response.body # Null) =>
        \A k \in 0..Len(location.pathname) :
          CleanDecomposition(location.pathname, k) =>
            location' = parseUrl(substring(location.pathname, 0, k)
                                 \o response.body[1].targetPath) ]_vars

(***************************************************************************)
(* The page in the browser: base-path resolver                             *)
(***************************************************************************)
KEYS_PAGE_ROUTE ==
  <<"/", "d", "a", "s", "h", "b", "o", "a", "r", "d", "/",
    "q", "u", "o", "t", "a", "s", "/", "k", "e", "y", "s">>

\* the application paths a loaded page can have
PagePaths ==
  RequestPaths \cup {<<"/">> \o l \o KEYS_PAGE_ROUTE : l \in {en, zhTW}}

\* URLs handed to history.pushState
PushUrls ==
  { <<"/", "e", "n", "/", "d", "a", "s", "h", "b", "o", "a", "r", "d">>,
    <<"/", "e", "n", "v", "/", "e", "n", "/", "l", "o", "g", "i", "n">>,
    <<"/", "p", "r", "o", "x", "y", "/", "4", "0", "0", "0", "/",
      "e", "n", "/", "d", "a", "s", "h", "b", "o", "a", "r", "d">>,
    <<"/", "a", "p", "i", "/", "p", "r", "o", "x", "y", "/", "4", "0", "0", "0",
      "/", "e", "n", "/", "d", "a", "s", "h", "b", "o", "a", "r", "d">> }

\* a page of the application has been loaded under the prefix
PageLoaded(cookies) ==
  /\ prefix \in Prefixes
  /\ cookie \in cookies
  /\ \E p \in PagePaths : location = [pathname |-> prefix \o p, search |-> Empty]
  /\ phase = "page"
  /\ request = NoRequest
  /\ response = NoResponse
  /\ calls = NoCalls
  /\ hops = 0
  /\ cachedBasePath = Null
  /\ results = <<>>
  /\ redirect = Null
  /\ pushes = 0
  /\ RuntimeIdle

ResolverInit == PageLoaded({NoCookie})

\* client code calls getBasePath()
CallGetBasePath ==
  /\ phase = "page"
  /\ Len(results) < MaxCalls
  /\ LET r == getBasePath(location.pathname, cachedBasePath)
     IN /\ results' = Append(results, [path |-> location.pathname,
                                       value |-> r.value])
        /\ cachedBasePath' = r.cache
  /\ UNCHANGED <<prefix, cookie, location, phase, redirect, pushes>>
  /\ UNCHANGED gateVars
  /\ UNCHANGED runtimeVars

\* history.pushState(data, unused, url): the pathname changes, the page stays
PushState(url) ==
  /\ phase = "page"
  /\ pushes < MaxPushes
  /\ location' = parseUrl(url)
  /\ pushes' = pushes + 1
  /\ UNCHANGED <<prefix, cookie, phase, cachedBasePath, results, redirect>>
  /\ UNCHANGED gateVars
  /\ UNCHANGED runtimeVars

ResolverNext ==
  \/ CallGetBasePath
  \/ \E url \in PushUrls : PushState(url)

SpecResolver == ResolverInit /\ [][ResolverNext]_vars

(***************************************************************************)
(* The page in the browser: ClientRedirect                                 *)
(***************************************************************************)
RedirectInit == PageLoaded({NoCookie, "user", "admin"})

\* the path the application sees: window.location.pathname without the prefix
appPath == substringFrom(location.pathname, Len(prefix))

\* params.locale of a page under app/[locale]
paramsLocale == potentialLocale(appPath)

\* `to` props of the pages that mount ClientRedirect
RedirectTargets ==
  { <<"/", "d", "a", "s", "h", "b", "o", "a", "r", "d">>,
    <<"/", "l", "o", "g", "i", "n", "?", "f", "r", "o", "m", "=",
      "/", "d", "a", "s", "h", "b", "o", "a", "r", "d">>,
    <<"l", "o", "g", "i", "n">> }

\* a page under app/[locale] renders <ClientRedirect to={to} locale={locale} />
MountClientRedirect(to) ==
  /\ phase = "page"
  /\ redirect = Null
  /\ isLocaleInPath(appPath)
  /\ pathWithoutLocale(appPath) # KEYS_PAGE_ROUTE
  /\ redirect' = Some([to |-> to, locale |-> paramsLocale,
                       from |-> Empty, href |-> Null])
  /\ UNCHANGED <<prefix, cookie, location, phase, cachedBasePath, results, pushes>>
  /\ UNCHANGED gateVars
  /\ UNCHANGED runtimeVars

\* the `to` prop chosen by KeysQuotaPage for a session
KeysQuotaPage_to(session) ==
  IF session = Null THEN <<"/", "l", "o", "g", "i", "n">>
  ELSE IF session[1].role # "admin"
  THEN <<"/", "d", "a", "s", "h", "b", "o", "a", "r", "d", "/",
         "m", "y", "-", "q", "u", "o", "t", "a">>
  ELSE <<"/", "d", "a", "s", "h", "b", "o", "a", "r", "d", "/",
         "q", "u", "o", "t", "a", "s", "/", "u", "s", "e", "r", "s">>

\* app/[locale]/dashboard/quotas/keys/page.tsx
KeysQuotaPage ==
  /\ phase = "page"
  /\ redirect = Null
  /\ isLocaleInPath(appPath)
  /\ pathWithoutLocale(appPath) = KEYS_PAGE_ROUTE
  /\ redirect' = Some([to |-> KeysQuotaPage_to(getSession(cookie)),
                       locale |-> paramsLocale,
                       from |-> Empty, href |-> Null])
  /\ UNCHANGED <<prefix, cookie, location, phase, cachedBasePath, results, pushes>>
  /\ UNCHANGED gateVars
  /\ UNCHANGED runtimeVars

\* the effect of the mounted ClientRedirect: window.location.href = fullPath
ClientRedirect ==
  /\ phase = "page"
  /\ redirect # Null
  /\ LET fullPath == ClientRedirect_fullPath(location.pathname,
                                             redirect[1].to, redirect[1].locale)
     IN /\ redirect' = Some([redirect[1] EXCEPT !.from = location.pathname,
                                                !.href = Some(fullPath)])
        /\ location' = parseUrl(fullPath)
  /\ phase' = "navigating"
  /\ UNCHANGED <<prefix, cookie, cachedBasePath, results, pushes>>
  /\ UNCHANGED gateVars
  /\ UNCHANGED runtimeVars

RedirectNext ==
  \/ \E to \in RedirectTargets : MountClientRedirect(to)
  \/ KeysQuotaPage
  \/ ClientRedirect

SpecRedirect == RedirectInit /\ [][RedirectNext]_vars

(***************************************************************************)
(* Properties of the page                                                  *)
(***************************************************************************)
\* the part of p before its first "/" + l segment, "" when there is none
BeforeFirstSegment(p, l) ==
  IF \E k \in 0..Len(p) : HasLocaleSegment(substringFrom(p, k), l)
  THEN LET k == CHOOSE i \in 0..Len(p) :
                  /\ HasLocaleSegment(substringFrom(p, i), l)
                  /\ \A j \in 0..(i - 1) : ~HasLocaleSegment(substringFrom(p, j), l)
       IN substring(p, 0, k)
  ELSE Empty

WithLeadingSlash(to) == IF to # Empty /\ to[1] = "/" THEN to ELSE <<"/">> \o to

\* C7: ClientRedirect navigates to resolvedBasePath + "/" + locale +
\* normalizedTo: the base path is the part of the current pathname before its
\* first locale segment, which is the reverse proxy's prefix whenever the
\* prefix has no such segment; the keys page of an admin on
\* /en/dashboard/quotas/keys goes to /en/dashboard/quotas/users
C7_ClientRedirectTarget ==
  (redirect # Null /\ redirect[1].href # Null) =>
    LET r == redirect[1]
    IN /\ r.href[1] = BeforeFirstSegment(r.from, r.locale) \o <<"/">>
                      \o r.locale \o WithLeadingSlash(r.to)
       /\ location = parseUrl(r.href[1])
       /\ (\A j \in 0..Len(prefix) :
             ~HasLocaleSegment(substringFrom(prefix, j), r.locale))
          => r.href[1] = prefix \o <<"/">> \o r.locale \o WithLeadingSlash(r.to)
       /\ (r.from = <<"/", "e", "n">> \o KEYS_PAGE_ROUTE /\ cookie = "admin")
          => r.href[1] = <<"/", "e", "n", "/", "d", "a", "s", "h", "b", "o", "a",
                           "r", "d", "/", "q", "u", "o", "t", "a", "s", "/",
                           "u", "s", "e", "r", "s">>

\* the keys page of scenario 2 has redirected
C7_Witness ==
  /\ redirect # Null
  /\ redirect[1].from = <<"/", "e", "n">> \o KEYS_PAGE_ROUTE
  /\ cookie = "admin"
  /\ redirect[1].href
       = Some(<<"/", "e", "n", "/", "d", "a", "s", "h", "b", "o", "a", "r", "d",
                "/", "q", "u", "o", "t", "a", "s", "/", "u", "s", "e", "r", "s">>)

\* C8: every call of getBasePath in one page load returns the value of the
\* first call, whatever the pathname has become in between
C8_SameValueEveryCall ==
  \A i \in DOMAIN results : \A j \in DOMAIN results :
    results[i].value = results[j].value

\* C9: on a pathname with a locale segment and no application-route segment
\* before it, getBasePath returns the part of the pathname before that segment
C9_BasePathBeforeLocale ==
  results # <<>> =>
    \A k \in 0..Len(results[1].path) :
      CleanDecomposition(results[1].path, k) =>
        results[1].value = substring(results[1].path, 0, k)

\* does the string contain one of the application-route keywords
ContainsAppRouteKeyword(b) ==
  \E r \in 1..Len(APP_ROUTES) : \E j \in 0..Len(b) :
    startsWith(substringFrom(b, j), APP_ROUTES[r])

\* C10: no value returned by getBasePath contains a locale segment or an
\* application-route keyword
C10_BasePathClean ==
  \A i \in DOMAIN results :
    /\ ~ContainsLocaleSegment(results[i].value)
    /\ ~ContainsAppRouteKeyword(results[i].value)

(***************************************************************************)
(* Fetch interceptor: lib/utils/fetch-interceptor                          *)
(***************************************************************************)
\* window.location.origin of the page, and an origin that is not the page's
APP_ORIGIN == <<"h", "t", "t", "p", "s", ":", "/", "/", "a", "p", "p">>

OTHER_ORIGIN == <<"h", "t", "t", "p", "s", ":", "/", "/", "c", "d", "n">>

includes(s, p) == indexOf(s, p) # -1

needsBasePath(url, basePath) ==
  IF ~startsWith(url, <<"/">>) THEN FALSE
  ELSE IF startsWith(url, basePath \o <<"/">>) THEN FALSE
  ELSE IF startsWith(url, <<"/", "_", "n", "e", "x", "t", "/">>) THEN FALSE
  ELSE TRUE

\* the replacement of window.fetch left out: every input is forwarded as it is
patchedFetch_forward(input, init, basePath) == [input |-> input, init |-> init]

\* patchedFetch(input, init): the arguments handed to originalFetch. A string
\* input is [shape, url]; a URL object and a Request object are
\* [shape, origin, pathname, search]
patchedFetch(input, init, basePath) ==
  IF input.shape = "string"
  THEN [input |-> IF needsBasePath(input.url, basePath)
                  THEN [input EXCEPT !.url = basePath \o input.url]
                  ELSE input,
        init |-> init]
  ELSE IF input.shape = "URL"
  THEN [input |-> IF /\ input.origin = APP_ORIGIN
                     /\ needsBasePath(input.pathname, basePath)
                  THEN [input EXCEPT !.pathname = basePath \o input.pathname]
                  ELSE input,
        init |-> init]
  ELSE [input |-> IF /\ input.origin = APP_ORIGIN
                     /\ needsBasePath(input.pathname, basePath)
                  THEN [input EXCEPT !.pathname = basePath \o input.pathname]
                  ELSE input,
        init |-> init]

(***************************************************************************)
(* Navigation interceptor: lib/utils/navigation-interceptor.ts             *)
(***************************************************************************)
EXTERNAL_PROTOCOLS ==
  << <<"h", "t", "t", "p", ":", "/", "/">>, <<"h", "t", "t", "p", "s",
      ":", "/", "/">>, <<"m", "a", "i", "l", "t", "o", ":">>, <<"t", "e",
          "l", ":">>, <<"j", "a", "v", "a", "s", "c", "r", "i", "p", "t",
              ":">>,
     <<"#">>, <<"b", "l", "o", "b", ":">>, <<"d", "a", "t", "a", ":">> >>

hasExternalProtocol(href) ==
  \E i \in 1..Len(EXTERNAL_PROTOCOLS) : startsWith(href, EXTERNAL_PROTOCOLS[i])

\* the test without its exclusion of hrefs that contain "/proxy/"
shouldPrependBasePath_noProxyTest(href, basePath) ==
  IF href = Empty THEN FALSE
  ELSE IF hasExternalProtocol(href) THEN FALSE
  ELSE IF ~startsWith(href, <<"/">>) THEN FALSE
  ELSE IF startsWith(href, basePath \o <<"/">>) \/ href = basePath THEN FALSE
  ELSE IF startsWith(href, <<"/", "_", "n", "e", "x", "t", "/">>) THEN FALSE
  ELSE TRUE

shouldPrependBasePath(href, basePath) ==
  IF href = Empty THEN FALSE
  ELSE IF hasExternalProtocol(href) THEN FALSE
  ELSE IF ~startsWith(href, <<"/">>) THEN FALSE
  ELSE IF startsWith(href, basePath \o <<"/">>) \/ href = basePath THEN FALSE
  ELSE IF includes(href, <<"/", "p", "r", "o", "x", "y", "/">>) THEN FALSE
  ELSE IF startsWith(href, <<"/", "_", "n", "e", "x", "t", "/">>) THEN FALSE
  ELSE TRUE

prependBasePath(href, basePath) == basePath \o href

\* the url argument left as the caller gave it
patchedHistoryUrl_unpatched(url, basePath) == url

\* the url argument that the patched history.pushState and
\* history.replaceState hand to the original method; an absent url is Null
patchedHistoryUrl(url, basePath) ==
  IF url # Null /\ url[1] # Empty
  THEN LET urlStr == url[1]
       IN IF shouldPrependBasePath(urlStr, basePath)
          THEN Some(prependBasePath(urlStr, basePath))
          ELSE url
  ELSE url

\* the same handler intercepting whatever the target, keys and download are
clickHandler_noExclusions(anchorEl, key, basePath) ==
  IF anchorEl = Null THEN [defaultPrevented |-> FALSE, href |-> Null]
  ELSE IF anchorEl[1].href = Null \/ anchorEl[1].href = Some(Empty)
  THEN [defaultPrevented |-> FALSE, href |-> Null]
  ELSE IF ~shouldPrependBasePath(anchorEl[1].href[1], basePath)
  THEN [defaultPrevented |-> FALSE, href |-> Null]
  ELSE [defaultPrevented |-> TRUE,
        href |-> Some(prependBasePath(anchorEl[1].href[1], basePath))]

\* the capture-phase click listener: whether it calls preventDefault, and the
\* href it assigns to window.location. anchorEl is target.closest("a"):
\* Null, or [href, target, download]; key is the modifier key held
clickHandler(anchorEl, key, basePath) ==
  IF anchorEl = Null THEN [defaultPrevented |-> FALSE, href |-> Null]
  ELSE IF anchorEl[1].href = Null \/ anchorEl[1].href = Some(Empty)
  THEN [defaultPrevented |-> FALSE, href |-> Null]
  ELSE IF ~shouldPrependBasePath(anchorEl[1].href[1], basePath)
  THEN [defaultPrevented |-> FALSE, href |-> Null]
  ELSE IF anchorEl[1].target # Null /\ anchorEl[1].target # Some("_self")
          /\ anchorEl[1].target # Some("")
  THEN [defaultPrevented |-> FALSE, href |-> Null]
  ELSE IF key \in {"ctrlKey", "metaKey", "shiftKey", "altKey"}
  THEN [defaultPrevented |-> FALSE, href |-> Null]
  ELSE IF anchorEl[1].download
  THEN [defaultPrevented |-> FALSE, href |-> Null]
  ELSE [defaultPrevented |-> TRUE,
        href |-> Some(prependBasePath(anchorEl[1].href[1], basePath))]

(***************************************************************************)
(* Navigation interceptor, href-rewriting strategy (MutationObserver)      *)
(***************************************************************************)
\* the test without its already-prefixed case
shouldPrependBasePath_observer_noPrefixTest(href, basePath) ==
  IF href = Empty THEN FALSE
  ELSE IF hasExternalProtocol(href) THEN FALSE
  ELSE IF ~startsWith(href, <<"/">>) THEN FALSE
  ELSE IF startsWith(href, <<"/", "_", "n", "e", "x", "t", "/">>) THEN FALSE
  ELSE TRUE

\* shouldPrependBasePath of the href-rewriting strategy
shouldPrependBasePath_observer(href, basePath) ==
  IF href = Empty THEN FALSE
  ELSE IF hasExternalProtocol(href) THEN FALSE
  ELSE IF ~startsWith(href, <<"/">>) THEN FALSE
  ELSE IF startsWith(href, basePath \o <<"/">>) \/ href = basePath THEN FALSE
  ELSE IF startsWith(href, <<"/", "_", "n", "e", "x", "t", "/">>) THEN FALSE
  ELSE TRUE

\* processAnchor(anchor, basePath): the href attribute after the call
processAnchor(href, basePath) ==
  IF href # Empty /\ shouldPrependBasePath_observer(href, basePath)
  THEN prependBasePath(href, basePath)
  ELSE href

(***************************************************************************)
(* ClientRedirect resolving the prefix with getBasePath; MyUsageHeader     *)
(***************************************************************************)
\* fullPath of the ClientRedirect that calls getBasePath()
ClientRedirect_basePath_fullPath(basePath, to, locale) ==
  LET normalizedTo == IF startsWith(to, <<"/">>) THEN to ELSE <<"/">> \o to
  IN basePath \o <<"/">> \o locale \o normalizedTo

\* getApiBasePath() and apiUrl(endpoint) of base-path.ts
getApiBasePath(basePath) ==
  IF basePath # Empty THEN basePath \o <<"/", "a", "p", "i">> ELSE <<"/",
      "a", "p", "i">>

apiUrl(endpoint, basePath) ==
  LET cleanEndpoint == IF startsWith(endpoint, <<"/">>) THEN endpoint
                       ELSE <<"/">> \o endpoint
  IN getApiBasePath(basePath) \o cleanEndpoint

\* loginPath of handleLogout
handleLogout_loginPath(basePath) ==
  IF basePath # Empty THEN basePath \o <<"/", "l", "o", "g", "i",
      "n">> ELSE <<"/", "l", "o", "g", "i", "n">>

(***************************************************************************)
(* The page in the browser: client runtime                                 *)
(***************************************************************************)
MaxPasses == 2

\* the application paths of the pages whose client runtime is followed
RuntimePages ==
  { <<"/", "e", "n", "/", "d", "a", "s", "h", "b", "o", "a", "r",
      "d">>, <<"/", "z", "h", "-", "T", "W", "/", "d", "a", "s", "h", "b",
          "o", "a", "r", "d">>, <<"/", "z", "h", "-", "T", "W", "/", "m",
              "y", "-", "u", "s", "a", "g", "e">>, <<"/">> }

\* a page has been loaded under the prefix by a signed-in user
RuntimeInit ==
  /\ prefix \in Prefixes
  /\ cookie = "user"
  /\ \E p \in RuntimePages : location = [pathname |-> prefix \o p, search |-> Empty]
  /\ phase = "page"
  /\ request = NoRequest
  /\ response = NoResponse
  /\ calls = NoCalls
  /\ hops = 0
  /\ cachedBasePath = Null
  /\ results = <<>>
  /\ redirect = Null
  /\ pushes = 0
  /\ RuntimeIdle

\* string inputs of fetch
FetchStrings ==
  { <<"/", "a", "p", "i", "/", "k", "e", "y", "s">>, <<"/", "_", "n", "e",
      "x", "t", "/", "d", "a", "t", "a">>, <<"a", "p", "i", "/", "k", "e",
          "y", "s">>, <<"/", "e", "n", "v", "o", "y">>,
    <<"h", "t", "t", "p", "s", ":", "/", "/", "c", "d", "n", "/",
        "x">>, <<"h", "t", "t", "p", "s", ":", "/", "/", "a", "p", "p",
            "/", "a", "p", "i", "/", "k", "e", "y", "s">>, <<"/", "/",
                "c", "d", "n", "/", "x">>,
    <<"/", "e", "n", "v", "/", "a", "p", "i", "/", "k", "e", "y",
        "s">>, <<"/", "p", "r", "o", "x", "y", "/", "4", "0", "0", "0",
            "/", "a", "p", "i", "/", "k", "e", "y", "s">> }

\* pathnames of the URL objects and Request objects given to fetch
FetchPathnames ==
  { <<"/", "a", "p", "i", "/", "k", "e", "y", "s">>, <<"/", "_", "n", "e",
      "x", "t", "/", "d", "a", "t", "a">>, <<"/", "e", "n", "v", "/", "a",
          "p", "i", "/", "k", "e", "y", "s">>, <<"/", "p", "r", "o", "x",
              "y", "/", "4", "0", "0", "0", "/", "a", "p", "i", "/", "k",
                  "e", "y", "s">> }

FetchInputs ==
  {[shape |-> "string", url |-> s] : s \in FetchStrings}
  \cup [shape : {"URL", "Request"}, origin : {APP_ORIGIN, OTHER_ORIGIN},
        pathname : FetchPathnames, search : {<<"?", "p", "a", "g", "e",
            "=", "2">>}]

\* a call of fetch: [input, init]
FetchCalls ==
  [input : {x \in FetchInputs : x.shape = "string"},
   init : {Null, Some([method |-> "POST"])}]
  \cup [input : {x \in FetchInputs : x.shape = "URL"}, init : {Null}]
  \cup [input : {x \in FetchInputs : x.shape = "Request"},
        init : {Some([method |-> "POST"])}]

\* hrefs of anchors
Hrefs ==
  { <<"/", "e", "n", "/", "d", "a", "s", "h", "b", "o", "a", "r",
      "d">>, <<"/", "z", "h", "-", "T", "W", "/", "l", "o", "g", "i", "n",
          "?", "f", "r", "o", "m", "=", "%", "2", "F", "d", "a", "s", "h",
              "b", "o", "a", "r", "d">>, <<"#", "t", "o", "p">>,
    <<"h", "t", "t", "p", "s", ":", "/", "/", "c", "d", "n", "/",
        "x">>, <<"h", "t", "t", "p", ":", "/", "/", "c", "d", "n", "/",
            "x">>, <<"m", "a", "i", "l", "t", "o", ":", "a", "@",
                "b">>, <<"s", "e", "t", "t", "i", "n", "g", "s">>,
    <<"/", "/", "c", "d", "n", "/", "x">>, <<"/", "_", "n", "e", "x", "t",
        "/", "x">>, <<"/", "e", "n", "v">>, <<"/", "e", "n", "v", "/",
            "e", "n", "/", "d", "a", "s", "h", "b", "o", "a", "r", "d">>,
    <<"/", "p", "r", "o", "x", "y", "/", "4", "0", "0", "0", "/", "e",
        "n", "/", "d", "a", "s", "h", "b", "o", "a", "r", "d">>, <<"/",
            "e", "n", "/", "p", "r", "o", "x", "y", "/", "k", "e", "y", "s">> }

\* url arguments of the history methods: absent, empty, or a URL of the
\* page's origin
HistoryUrls ==
  { Null, Some(Empty), Some(<<"h", "t", "t", "p", "s", ":", "/", "/", "a",
      "p", "p", "/", "e", "n", "/", "d", "a", "s", "h", "b", "o", "a",
          "r", "d">>),
    Some(<<"/", "e", "n", "/", "d", "a", "s", "h", "b", "o", "a", "r",
        "d">>), Some(<<"/", "z", "h", "-", "T", "W", "/", "l", "o", "g",
            "i", "n", "?", "f", "r", "o", "m", "=", "%", "2", "F", "d",
                "a", "s", "h", "b", "o", "a", "r", "d">>),
    Some(<<"#", "t", "o", "p">>), Some(<<"/", "_", "n", "e", "x", "t",
        "/", "x">>), Some(<<"/", "e", "n", "v", "/", "e", "n", "/", "d",
            "a", "s", "h", "b", "o", "a", "r", "d">>),
    Some(<<"/", "p", "r", "o", "x", "y", "/", "4", "0", "0", "0", "/",
        "e", "n", "/", "d", "a", "s", "h", "b", "o", "a", "r",
            "d">>), Some(<<"/", "e", "n", "/", "p", "r", "o", "x", "y",
                "/", "k", "e", "y", "s">>) }

\* a call of a history method: [data, unused, url]
HistoryCalls ==
  [data : {Null}, unused : {""}, url : HistoryUrls]
  \cup [data : {Some("state")}, unused : {"title"}, url : HistoryUrls]

\* hrefs of the anchors that are clicked; Null is an anchor without href
ClickHrefs ==
  { Null, Some(<<"/", "e", "n", "/", "d", "a", "s", "h", "b", "o", "a",
      "r", "d">>), Some(<<"#", "t", "o", "p">>), Some(<<"h", "t", "t",
          "p", "s", ":", "/", "/", "c", "d", "n", "/", "x">>),
    Some(<<"/", "_", "n", "e", "x", "t", "/", "x">>), Some(<<"/", "e",
        "n", "v", "/", "e", "n", "/", "d", "a", "s", "h", "b", "o", "a",
            "r", "d">>),
    Some(<<"/", "p", "r", "o", "x", "y", "/", "4", "0", "0", "0", "/",
        "e", "n", "/", "d", "a", "s", "h", "b", "o", "a", "r",
            "d">>), Some(<<"/", "e", "n", "/", "p", "r", "o", "x", "y",
                "/", "k", "e", "y", "s">>) }

ModifierKeys == {"ctrlKey", "metaKey", "shiftKey", "altKey"}

\* a click: [anchorEl, key], anchorEl the closest anchor (Null when the
\* click is outside every anchor) and key the modifier key held. At most
\* one of target, download and modifier key is set in one click
Clicks ==
  { [anchorEl |-> Null, key |-> "none"] }
  \cup [anchorEl : {Some([href |-> h, target |-> t, download |-> FALSE]) :
                      h \in ClickHrefs,
                      t \in {Null, Some("_self"), Some("_blank")}},
        key : {"none"}]
  \cup [anchorEl : {Some([href |-> h, target |-> Null, download |-> TRUE]) :
                      h \in ClickHrefs},
        key : {"none"}]
  \cup [anchorEl : {Some([href |-> h, target |-> Null, download |-> FALSE]) :
                      h \in ClickHrefs},
        key : ModifierKeys]

\* patchFetchForProxy() without its test of the "already patched" flag
patchFetchForProxy_unguarded ==
  /\ phase = "page"
  /\ LET r == getBasePath(location.pathname, cachedBasePath)
     IN /\ fetchPatch' = [isPatched |-> TRUE, basePath |-> Some(r.value),
                          wrappers |-> IF r.value = Empty
                                       THEN fetchPatch.wrappers
                                       ELSE Append(fetchPatch.wrappers,
                                                   r.value)]
        /\ cachedBasePath' = r.cache
        /\ results' = Append(results, [path |-> location.pathname,
                                       value |-> r.value])
  /\ UNCHANGED <<prefix, cookie, location, phase, redirect, pushes>>
  /\ UNCHANGED <<navPatch, lastOp, dom>>
  /\ UNCHANGED gateVars

\* patchFetchForProxy(): window.fetch is replaced when basePath is not empty
patchFetchForProxy ==
  /\ phase = "page"
  /\ IF fetchPatch.isPatched
     THEN UNCHANGED <<fetchPatch, cachedBasePath, results>>
     ELSE LET r == getBasePath(location.pathname, cachedBasePath)
          IN /\ fetchPatch' = [isPatched |-> TRUE, basePath |-> Some(r.value),
                               wrappers |-> IF r.value = Empty
                                            THEN fetchPatch.wrappers
                                            ELSE Append(fetchPatch.wrappers,
                                                        r.value)]
             /\ cachedBasePath' = r.cache
             /\ results' = Append(results, [path |-> location.pathname,
                                            value |-> r.value])
  /\ UNCHANGED <<prefix, cookie, location, phase, redirect, pushes>>
  /\ UNCHANGED <<navPatch, lastOp, dom>>
  /\ UNCHANGED gateVars

\* patchNavigationForProxy(): the click listener and the history patches are
\* installed when basePath is not empty
patchNavigationForProxy ==
  /\ phase = "page"
  /\ IF navPatch.isPatched
     THEN UNCHANGED <<navPatch, cachedBasePath, results>>
     ELSE LET r == getBasePath(location.pathname, cachedBasePath)
          IN /\ navPatch' = [isPatched |-> TRUE, basePath |-> Some(r.value),
                             wrappers |-> IF r.value = Empty
                                          THEN navPatch.wrappers
                                          ELSE Append(navPatch.wrappers,
                                                      r.value)]
             /\ cachedBasePath' = r.cache
             /\ results' = Append(results, [path |-> location.pathname,
                                            value |-> r.value])
  /\ UNCHANGED <<prefix, cookie, location, phase, redirect, pushes>>
  /\ UNCHANGED <<fetchPatch, lastOp, dom>>
  /\ UNCHANGED gateVars

\* the entry point has installed both patches; the page's code runs
RuntimeReady ==
  /\ phase = "page"
  /\ fetchPatch.isPatched
  /\ navPatch.isPatched

\* window.fetch after the wrappers were installed one over the other, the
\* last one outermost: the arguments that reach the browser's own fetch
RECURSIVE windowFetch(_, _, _)
windowFetch(wrappers, input, init) ==
  IF wrappers = <<>> THEN [input |-> input, init |-> init]
  ELSE LET outer == patchedFetch(input, init, wrappers[Len(wrappers)])
       IN windowFetch(SubSeq(wrappers, 1, Len(wrappers) - 1), outer.input,
                      outer.init)

\* window.fetch(input, init) called by the page's code
fetch(input, init) ==
  /\ RuntimeReady
  /\ lastOp' = Some([op |-> "fetch", input |-> input, init |-> init,
                     basePath |-> fetchPatch.basePath[1],
                     forwarded |-> windowFetch(fetchPatch.wrappers, input,
                                               init)])
  /\ UNCHANGED <<prefix, cookie, location, phase>>
  /\ UNCHANGED <<fetchPatch, navPatch, dom>>
  /\ UNCHANGED clientVars
  /\ UNCHANGED gateVars

\* window.location after the original history method has committed url
historyLocation(url) ==
  IF url = Null \/ url = Some(Empty) THEN location
  ELSE IF startsWith(url[1], <<"#">>) THEN location
  ELSE IF startsWith(url[1], APP_ORIGIN)
  THEN parseUrl(substringFrom(url[1], Len(APP_ORIGIN)))
  ELSE parseUrl(url[1])

\* history.pushState(data, unused, url) or history.replaceState(data, unused,
\* url) called by the page's code or by the router
historyCall(method, data, unused, url) ==
  /\ RuntimeReady
  /\ LET basePath == navPatch.basePath[1]
         committedUrl == IF basePath # Empty
                         THEN patchedHistoryUrl(url, basePath)
                         ELSE url
     IN /\ lastOp' = Some([op |-> method, data |-> data, unused |-> unused,
                           url |-> url, basePath |-> basePath,
                           committed |-> [data |-> data, unused |-> unused,
                                          url |-> committedUrl]])
        /\ location' = historyLocation(committedUrl)
  /\ UNCHANGED <<prefix, cookie, phase>>
  /\ UNCHANGED clientVars
  /\ UNCHANGED <<fetchPatch, navPatch, dom>>
  /\ UNCHANGED gateVars

\* a click in the document, seen by the capture-phase listener
click(anchorEl, key) ==
  /\ RuntimeReady
  /\ LET basePath == navPatch.basePath[1]
         r == IF basePath # Empty THEN clickHandler(anchorEl, key, basePath)
              ELSE [defaultPrevented |-> FALSE, href |-> Null]
     IN /\ lastOp' = Some([op |-> "click", anchorEl |-> anchorEl, key |-> key,
                           basePath |-> basePath, from |-> location,
                           defaultPrevented |-> r.defaultPrevented,
                           assigned |-> r.href])
        /\ IF r.href # Null
           THEN /\ location' = parseUrl(r.href[1])
                /\ phase' = "navigating"
           ELSE UNCHANGED <<location, phase>>
  /\ UNCHANGED <<prefix, cookie>>
  /\ UNCHANGED <<fetchPatch, navPatch, dom>>
  /\ UNCHANGED clientVars
  /\ UNCHANGED gateVars

\* an anchor is added to the document: the observer runs processAnchor on it;
\* the anchor is [original, first, href, passes] in lastOp, `first` the href
\* after this first pass
anchorAdded(href) ==
  /\ RuntimeReady
  /\ navPatch.basePath[1] # Empty
  /\ lastOp' = Some([op |-> "processAnchor", original |-> href,
                     first |-> processAnchor(href, navPatch.basePath[1]),
                     href |-> processAnchor(href, navPatch.basePath[1]),
                     basePath |-> navPatch.basePath[1], passes |-> 1])
  /\ UNCHANGED <<prefix, cookie, location, phase>>
  /\ UNCHANGED <<fetchPatch, navPatch, dom>>
  /\ UNCHANGED clientVars
  /\ UNCHANGED gateVars

\* the observer sees the href attribute of the anchor change and rewrites the
\* href once more if it still needs the base path
hrefMutation ==
  /\ RuntimeReady
  /\ lastOp # Null
  /\ lastOp[1].op = "processAnchor"
  /\ lastOp[1].passes < MaxPasses
  /\ lastOp' = Some([lastOp[1] EXCEPT
                       !.href = processAnchor(@, navPatch.basePath[1]),
                       !.passes = @ + 1])
  /\ UNCHANGED <<prefix, cookie, location, phase>>
  /\ UNCHANGED <<fetchPatch, navPatch, dom>>
  /\ UNCHANGED clientVars
  /\ UNCHANGED gateVars

\* <ClientRedirect to locale /> of the variant that calls getBasePath(): its
\* effect assigns fullPath to window.location.href
ClientRedirect_basePath(to, locale) ==
  /\ RuntimeReady
  /\ LET r == getBasePath(location.pathname, cachedBasePath)
         fullPath == ClientRedirect_basePath_fullPath(r.value, to, locale)
     IN /\ lastOp' = Some([op |-> "ClientRedirect", to |-> to,
                           locale |-> locale, basePath |-> r.value,
                           href |-> fullPath])
        /\ cachedBasePath' = r.cache
        /\ results' = Append(results, [path |-> location.pathname,
                                       value |-> r.value])
        /\ location' = parseUrl(fullPath)
  /\ phase' = "navigating"
  /\ UNCHANGED <<prefix, cookie, redirect, pushes>>
  /\ UNCHANGED <<fetchPatch, navPatch, dom>>
  /\ UNCHANGED gateVars

\* handleLogout of MyUsageHeader: the onLogout prop when given, else a POST
\* to the logout endpoint and a navigation to the login page
handleLogout(onLogout) ==
  /\ RuntimeReady
  /\ includes(location.pathname, <<"/", "m", "y", "-", "u", "s", "a", "g",
      "e">>)
  /\ IF onLogout
     THEN /\ lastOp' = Some([op |-> "handleLogout", onLogout |-> TRUE])
          /\ UNCHANGED <<cookie, location, phase, cachedBasePath, results>>
     ELSE LET r1 == getBasePath(location.pathname, cachedBasePath)
              url == [shape |-> "string",
                      url |-> apiUrl(<<"/", "a", "u", "t", "h", "/", "l",
                          "o", "g", "o", "u", "t">>, r1.value)]
              init == Some([method |-> "POST"])
              r2 == getBasePath(location.pathname, r1.cache)
              loginHref == handleLogout_loginPath(r2.value)
          IN /\ lastOp' =
                  Some([op |-> "handleLogout", onLogout |-> FALSE,
                        basePath |-> r2.value, href |-> loginHref,
                        forwarded |->
                          IF fetchPatch.basePath[1] # Empty
                          THEN patchedFetch(url, init, fetchPatch.basePath[1])
                          ELSE [input |-> url, init |-> init]])
             /\ cookie' = NoCookie
             /\ cachedBasePath' = r2.cache
             /\ results' = results
                  \o << [path |-> location.pathname, value |-> r1.value],
                        [path |-> location.pathname, value |-> r2.value] >>
             /\ location' = parseUrl(loginHref)
             /\ phase' = "navigating"
  /\ UNCHANGED <<prefix, redirect, pushes>>
  /\ UNCHANGED <<fetchPatch, navPatch, dom>>
  /\ UNCHANGED gateVars

RuntimeNext ==
  \/ patchFetchForProxy
  \/ patchNavigationForProxy
  \/ \E c \in FetchCalls : fetch(c.input, c.init)
  \/ \E method \in {"pushState", "replaceState"}, c \in HistoryCalls :
       historyCall(method, c.data, c.unused, c.url)
  \/ \E c \in Clicks : click(c.anchorEl, c.key)
  \/ \E href \in Hrefs : anchorAdded(href)
  \/ hrefMutation
  \/ \E to \in {<<"/", "l", "o", "g", "i", "n">>, <<"d", "a", "s", "h",
      "b", "o", "a", "r", "d">>}, locale \in {en, zhTW} :
       ClientRedirect_basePath(to, locale)
  \/ \E onLogout \in BOOLEAN : handleLogout(onLogout)

SpecRuntime == RuntimeInit /\ [][RuntimeNext]_vars

(***************************************************************************)
(* Properties of the client runtime                                        *)
(***************************************************************************)
\* the last operation of the runtime was `op`
LastOpIs(op) == lastOp # Null /\ lastOp[1].op = op

LastOpIsHistory == LastOpIs("pushState") \/ LastOpIs("replaceState")

\* origin and path of an absolute URL string whose authority starts at
\* 0-based offset `from`; the origin is `scheme` + "//" + host
AbsoluteTarget(s, from, scheme) ==
  LET rest == substringFrom(s, from)
      k == indexOf(rest, <<"/">>)
  IN [origin |-> scheme \o <<"/", "/">>
                   \o (IF k = -1 THEN rest ELSE substring(rest, 0, k)),
      path |-> IF k = -1 THEN <<"/">> ELSE substringFrom(rest, k)]

\* the request target of a fetch input: the origin the browser sends the
\* request to and the path as the input gives it (a relative path stays as
\* written, a protocol-relative URL takes the scheme of the page)
FetchTarget(input) ==
  IF input.shape # "string"
  THEN [origin |-> input.origin, path |-> input.pathname]
  ELSE IF startsWith(input.url, <<"h", "t", "t", "p", "s", ":", "/", "/">>)
  THEN AbsoluteTarget(input.url, 8, <<"h", "t", "t", "p", "s", ":">>)
  ELSE IF startsWith(input.url, <<"h", "t", "t", "p", ":", "/", "/">>)
  THEN AbsoluteTarget(input.url, 7, <<"h", "t", "t", "p", ":">>)
  ELSE IF startsWith(input.url, <<"/", "/">>)
  THEN AbsoluteTarget(input.url, 2, <<"h", "t", "t", "p", "s", ":">>)
  ELSE [origin |-> APP_ORIGIN, path |-> input.url]

\* C11: the patched fetch prepends the base path to the request target if
\* and only if the target is same-origin, its path starts with "/", does not
\* start with basePath + "/" and is not under /_next/, whatever the shape of
\* the input; every other input is handed to the original fetch unmodified
C11_FetchPrependsIff ==
  (LastOpIs("fetch") /\ lastOp[1].basePath # Empty) =>
    LET o == lastOp[1]
        t == FetchTarget(o.input)
        f == FetchTarget(o.forwarded.input)
        prepend == /\ t.origin = APP_ORIGIN
                   /\ startsWith(t.path, <<"/">>)
                   /\ ~startsWith(t.path, o.basePath \o <<"/">>)
                   /\ ~startsWith(t.path, <<"/", "_", "n", "e", "x", "t",
                       "/">>)
    IN /\ o.forwarded.init = o.init
       /\ IF prepend
          THEN /\ o.forwarded.input.shape = o.input.shape
               /\ f = [origin |-> t.origin, path |-> o.basePath \o t.path]
          ELSE o.forwarded.input = o.input

IsExternalUrl(href) ==
  startsWith(href, <<"h", "t", "t", "p", ":", "/",
      "/">>) \/ startsWith(href, <<"h", "t", "t", "p", "s", ":", "/", "/">>)

IsFragmentLink(href) == startsWith(href, <<"#">>)

AlreadyPrefixed(href, basePath) ==
  startsWith(href, basePath \o <<"/">>) \/ href = basePath

IsNextPath(href) == startsWith(href, <<"/", "_", "n", "e", "x", "t", "/">>)

ContainsProxySegment(href) ==
  \E k \in 0..Len(href) : occursAt(href, <<"/", "p", "r", "o", "x", "y",
      "/">>, k)

\* a path of the page's own origin: "/" followed by something other than "/"
IsSameOriginAbsolutePath(href) ==
  startsWith(href, <<"/">>) /\ ~startsWith(href, <<"/", "/">>)

C13_RewriteIdempotent ==
  /\ LastOpIs("processAnchor") =>
       LET o == lastOp[1]
       IN /\ o.basePath # Empty
          /\ o.href \in {o.original, o.basePath \o o.original}
          /\ o.href = o.first
  /\ (LastOpIsHistory /\ lastOp[1].basePath # Empty) =>
       patchedHistoryUrl(lastOp[1].committed.url, lastOp[1].basePath)
         = lastOp[1].committed.url

\* the observer has seen the rewritten href /env/en/dashboard again
C13_Witness ==
  /\ LastOpIs("processAnchor")
  /\ lastOp[1].passes = 2
  /\ lastOp[1].basePath = <<"/", "e", "n", "v">>
  /\ lastOp[1].original = <<"/", "e", "n", "/", "d", "a", "s", "h", "b",
      "o", "a", "r", "d">>
  /\ lastOp[1].href = <<"/", "e", "n", "v", "/", "e", "n", "/", "d", "a",
      "s", "h", "b", "o", "a", "r", "d">>

\* the locale segments of a path: the offsets where "/" + locale starts a
\* whole segment
LocaleSegmentOffsets(p) ==
  {k \in 0..Len(p) : \E l \in LocaleSet : HasLocaleSegment(substringFrom(p, k), l)}

\* the path has exactly one locale segment, right after the prefix
OneLocaleSegmentAfterPrefix(p) ==
  /\ startsWith(p, prefix)
  /\ LocaleSegmentOffsets(p) = {Len(prefix)}

\* C14: the URL of the gate's login redirect, of ClientRedirect and of the
\* logout navigation has exactly one locale segment, and that segment
\* immediately follows the base path
C14_OneLocaleSegment ==
  /\ (phase \in {"navigating", "stopped"} /\ hops > 0 /\ IsLoginRedirect)
       => OneLocaleSegmentAfterPrefix(location.pathname)
  /\ (redirect # Null /\ redirect[1].href # Null)
       => OneLocaleSegmentAfterPrefix(location.pathname)
  /\ LastOpIs("ClientRedirect")
       => OneLocaleSegmentAfterPrefix(location.pathname)
  /\ (LastOpIs("handleLogout") /\ ~lastOp[1].onLogout)
       => OneLocaleSegmentAfterPrefix(location.pathname)

\* C15: the fetch rewriter, the navigation rewriter and ClientRedirect all
\* use the base path that was resolved first in this page load
C15_OneBasePathPerPage ==
  results # <<>> =>
    /\ fetchPatch.basePath # Null => fetchPatch.basePath[1] = results[1].value
    /\ navPatch.basePath # Null => navPatch.basePath[1] = results[1].value
    /\ LastOpIs("fetch") => lastOp[1].basePath = results[1].value
    /\ LastOpIsHistory => lastOp[1].basePath = results[1].value
    /\ LastOpIs("click") => lastOp[1].basePath = results[1].value
    /\ LastOpIs("ClientRedirect") => lastOp[1].basePath = results[1].value

\* does the href need the base path: a same-origin absolute path that is not
\* already prefixed, has no "/proxy/" segment and is not under /_next/
NeedsPrefix(href, basePath) ==
  /\ startsWith(href, <<"/">>)
  /\ ~AlreadyPrefixed(href, basePath)
  /\ ~ContainsProxySegment(href)
  /\ ~IsNextPath(href)

ScriptBasePath(doc, currentPath) ==
  IF doc.script = "invalidSession"
  THEN script_basePathInvalidSession(currentPath)
  ELSE script_basePath(currentPath)

\* C18: for the request and the browser pathname at hand, the
\* missing-cookie document and the invalid-session document send the browser
\* to the same URL, and the two responses differ in the cookie clearing only
C18_SameFinalUrl ==
  (Answered /\ AuthFailed /\ IsLoginRedirect) =>
    LET missing == missingCookieResponse(request.pathname)
        invalid == invalidSessionResponse(request.pathname)
    IN /\ response \in {missing, invalid}
       /\ missing.body[1].targetPath = invalid.body[1].targetPath
       /\ [missing EXCEPT !.SetCookie = Null, !.body = Null]
            = [invalid EXCEPT !.SetCookie = Null, !.body = Null]
       /\ script_fullPath(missing.body[1], location.pathname)
            = script_fullPath(invalid.body[1], location.pathname)

\* C19: on the browser pathname at hand, the script of the redirect document
\* computes the base path that getBasePath returns on a fresh page
C19_ScriptMatchesResolver ==
  (Answered /\ response.body # Null) =>
    ScriptBasePath(response.body[1], location.pathname)
      = getBasePath(location.pathname, Null).value

(***************************************************************************)
(* cleanBasePath applied to candidate base paths                           *)
(***************************************************************************)
CleanInit == PageLoaded({NoCookie})

\* cleanBasePath(x), first on the pathname and then on its own result; the
\* calls are kept in `results` as [path |-> x, value |-> cleanBasePath(x)]
CallCleanBasePath ==
  /\ phase = "page"
  /\ Len(results) < MaxCalls
  /\ LET x == IF results = <<>> THEN location.pathname
              ELSE results[Len(results)].value
     IN results' = Append(results, [path |-> x, value |-> cleanBasePath(x)])
  /\ UNCHANGED <<prefix, cookie, location, phase, cachedBasePath, redirect, pushes>>
  /\ UNCHANGED gateVars
  /\ UNCHANGED runtimeVars

CleanNext == CallCleanBasePath

SpecClean == CleanInit /\ [][CleanNext]_vars

\* the offsets in x where an application-route keyword or a locale segment
\* starts
PollutionOffsets(x) ==
  {k \in 0..Len(x) :
     \/ \E r \in 1..Len(APP_ROUTES) : occursAt(x, APP_ROUTES[r], k)
     \/ \E l \in LocaleSet : HasLocaleSegment(substringFrom(x, k), l)}

\* C20: cleanBasePath(cleanBasePath(x)) = cleanBasePath(x), and
\* cleanBasePath(x) is a prefix of x that ends before the earliest
\* application-route keyword or locale segment of x
C20_CleanIdempotentAndEarliest ==
  \A i \in DOMAIN results :
    LET x == results[i].path
        y == results[i].value
    IN /\ i > 1 => y = x
       /\ startsWith(x, y)
       /\ \A k \in PollutionOffsets(x) : Len(y) <= k

(***************************************************************************)
(* Properties of the resolver's proxy-port step                            *)
(***************************************************************************)
\* does a whole segment /proxy/<digits> start at offset k of p
ProxyPortSegmentAt(p, k) ==
  /\ occursAt(p, <<"/", "p", "r", "o", "x", "y", "/">>, k)
  /\ \E n \in 1..(Len(p) - k - 7) :
       /\ \A j \in 1..n : p[k + 7 + j] \in Digits
       /\ (k + 7 + n = Len(p) \/ p[k + 7 + n + 1] = "/")

\* the end of the first /proxy/<digits> segment of p
FirstProxyPortEnd(p) ==
  LET k == CHOOSE i \in 0..Len(p) :
             /\ ProxyPortSegmentAt(p, i)
             /\ \A j \in 0..(i - 1) : ~ProxyPortSegmentAt(p, j)
      n == CHOOSE m \in 1..(Len(p) - k - 7) :
             /\ \A j \in 1..m : p[k + 7 + j] \in Digits
             /\ (k + 7 + m = Len(p) \/ p[k + 7 + m + 1] = "/")
  IN k + 7 + n

HasProxyPortSegment(p) == \E k \in 0..Len(p) : ProxyPortSegmentAt(p, k)

\* C21 as stated: on a pathname with a /proxy/<digits> segment, the first
\* getBasePath call of the page returns the pathname up to and including the
\* first such segment
C21_Original ==
  (results # <<>> /\ HasProxyPortSegment(results[1].path)) =>
    results[1].value
      = substring(results[1].path, 0, FirstProxyPortEnd(results[1].path))

\* C21: on a pathname with a /proxy/<digits> segment, the first getBasePath
\* call of the page returns the pathname up to and including the first such
\* segment after the cleanup pass, whenever the cleanup leaves something of
\* it, whatever the locale scan, the known-path scan and the whole-path
\* fallback would give; the value is then cached
C21_ProxyPrefixFirst ==
  (results # <<>> /\ HasProxyPortSegment(results[1].path)) =>
    LET candidate == substring(results[1].path, 0,
                               FirstProxyPortEnd(results[1].path))
    IN cleanBasePath(candidate) # Empty =>
         /\ results[1].value = cleanBasePath(candidate)
         /\ cachedBasePath = Some(cleanBasePath(candidate))

\* on /proxy/4000/env/en, where the later steps would give the whole path,
\* getBasePath has returned /proxy/4000
C21_Witness ==
  /\ results # <<>>
  /\ results[1].path = <<"/", "p", "r", "o", "x", "y", "/", "4", "0", "0",
      "0", "/", "e", "n", "v", "/", "e", "n">>
  /\ results[1].value = <<"/", "p", "r", "o", "x", "y", "/", "4", "0",
      "0", "0">>

(***************************************************************************)
(* Properties of the fetch patch's guard                                   *)
(***************************************************************************)
\* the path of a fetch input in one of the forms the wrapper looks at: a
\* string that is a path, or a same-origin URL or Request object
RewritablePath(input) ==
  IF input.shape = "string"
  THEN IF startsWith(input.url, <<"/">>) /\ ~startsWith(input.url, <<"/",
      "/">>)
       THEN Some(input.url) ELSE Null
  ELSE IF input.origin = APP_ORIGIN THEN Some(input.pathname) ELSE Null

\* the last fetch reached the browser's fetch either as it was called or with
\* one copy of the base path in front of its path, and with one copy when its
\* path is neither under the base path nor under /_next/
FetchPrefixedOnce ==
  (LastOpIs("fetch") /\ lastOp[1].basePath # Empty) =>
    LET o == lastOp[1]
        once == IF o.input.shape = "string"
                THEN [o.input EXCEPT !.url = o.basePath \o @]
                ELSE [o.input EXCEPT !.pathname = o.basePath \o @]
        p == RewritablePath(o.input)
    IN /\ o.forwarded.input \in {o.input, once}
       /\ (/\ p # Null
           /\ ~startsWith(p[1], o.basePath \o <<"/">>)
           /\ ~IsNextPath(p[1]))
            => o.forwarded.input = once

\* C22: window.fetch carries at most one wrapper, installed by the call of
\* patchFetchForProxy that found the flag clear; once the flag is set no step
\* changes the patch state; and a request whose path needs the base path
\* reaches the browser's fetch with one copy of it
C22_FetchWrappedOnce ==
  /\ [](/\ Len(fetchPatch.wrappers) <= 1
        /\ fetchPatch.wrappers # <<>> =>
             /\ fetchPatch.isPatched
             /\ fetchPatch.wrappers = <<fetchPatch.basePath[1]>>
        /\ FetchPrefixedOnce)
  /\ [][fetchPatch.isPatched => fetchPatch' = fetchPatch]_vars

\* a fetch of /api/keys went through the one wrapper and left as /env/api/keys
C22_Witness ==
  /\ LastOpIs("fetch")
  /\ fetchPatch.wrappers = << <<"/", "e", "n", "v">> >>
  /\ lastOp[1].input = [shape |-> "string", url |-> <<"/", "a", "p", "i",
      "/", "k", "e", "y", "s">>]
  /\ lastOp[1].forwarded.input = [shape |-> "string", url |-> <<"/", "e",
      "n", "v", "/", "a", "p", "i", "/", "k", "e", "y", "s">>]

(***************************************************************************)
(* Navigation interceptor that rewrites hrefs: its life cycle              *)
(***************************************************************************)
\* href writes the page's code makes in one page load
MaxEdits == 2

\* patchNavigationForProxy calls of one page load that find the flag clear
MaxPatches == 2

ObserverPages ==
  { <<"/", "e", "n", "/", "d", "a", "s", "h", "b", "o", "a", "r",
      "d">>, <<"/", "z", "h", "-", "T", "W", "/", "d", "a", "s", "h", "b",
          "o", "a", "r", "d">> }

ObserverHrefs ==
  { <<"/", "e", "n", "/", "d", "a", "s", "h", "b", "o", "a", "r",
      "d">>, <<"/", "z", "h", "-", "T", "W", "/", "m", "y", "-", "u", "s",
          "a", "g", "e">>, <<"#", "t", "o", "p">> }

ObserverHistoryUrls ==
  { Some(<<"/", "e", "n", "/", "d", "a", "s", "h", "b", "o", "a", "r",
      "d">>), Some(<<"/", "z", "h", "-", "T", "W", "/", "m", "y", "-",
          "u", "s", "a", "g", "e">>), Null }

\* module state before the first call, with what the module has installed in
\* the document: the base paths the click listeners and the history wrappers
\* closed over, in the order of installation, and the connected observer's
ObserverNotPatched ==
  [isPatched |-> FALSE, basePath |-> Null, wrappers |-> <<>>,
   listeners |-> <<>>, observer |-> Null]

ObserverInit ==
  /\ prefix \in Prefixes
  /\ cookie = "user"
  /\ \E p \in ObserverPages :
       location = [pathname |-> prefix \o p, search |-> Empty]
  /\ phase = "page"
  /\ request = NoRequest
  /\ response = NoResponse
  /\ calls = NoCalls
  /\ hops = 0
  /\ cachedBasePath = Null
  /\ results = <<>>
  /\ redirect = Null
  /\ pushes = 0
  /\ fetchPatch = NotPatched
  /\ navPatch = ObserverNotPatched
  /\ lastOp = Null
  /\ dom = NoDom

\* the wrapper without the "already has base path" test of its rule
historyWrapper_noPrefixTest(url, basePath) ==
  IF url # Null /\ url[1] # Empty
  THEN IF shouldPrependBasePath_observer_noPrefixTest(url[1], basePath)
       THEN Some(prependBasePath(url[1], basePath))
       ELSE url
  ELSE url

\* the url a history.pushState or history.replaceState wrapper hands to the
\* method it wraps
historyWrapper(url, basePath) ==
  IF url # Null /\ url[1] # Empty
  THEN IF shouldPrependBasePath_observer(url[1], basePath)
       THEN Some(prependBasePath(url[1], basePath))
       ELSE url
  ELSE url

\* the url that reaches the browser's own history method through the
\* wrappers, the last installed outermost
RECURSIVE historyThroughWrappers(_, _)
historyThroughWrappers(wrappers, url) ==
  IF wrappers = <<>> THEN url
  ELSE historyThroughWrappers(SubSeq(wrappers, 1, Len(wrappers) - 1),
                              historyWrapper(url, wrappers[Len(wrappers)]))

\* the fallback click listeners, called in the order of their registration:
\* the last assignment to window.location.href, Null when none intervened
clickThroughListeners(listeners, href) ==
  LET hits == {i \in 1..Len(listeners) :
                 href # Empty
                   /\ shouldPrependBasePath_observer(href, listeners[i])}
  IN IF hits = {} THEN Null
     ELSE LET last == CHOOSE i \in hits : \A j \in hits : j <= i
          IN Some(prependBasePath(href, listeners[last]))

\* patchNavigationForProxy() without its test of the "already patched" flag
patchNavigationForProxy_observer_unguarded ==
  /\ phase = "page"
  /\ Len(results) < MaxPatches
  /\ LET r == getBasePath(location.pathname, cachedBasePath)
     IN /\ cachedBasePath' = r.cache
        /\ results' = Append(results, [path |-> location.pathname,
                                       value |-> r.value])
        /\ IF r.value = Empty
           THEN /\ navPatch' = [navPatch EXCEPT !.isPatched = TRUE,
                                                !.basePath = Some(Empty)]
                /\ UNCHANGED dom
           ELSE /\ navPatch' =
                     [isPatched |-> TRUE, basePath |-> Some(r.value),
                      wrappers |-> Append(navPatch.wrappers, r.value),
                      listeners |-> Append(navPatch.listeners, r.value),
                      observer |-> Some(r.value)]
                /\ dom' = [dom EXCEPT !.anchor =
                             IF @ = Null THEN Null
                             ELSE Some(processAnchor(@[1], r.value))]
  /\ UNCHANGED <<prefix, cookie, location, phase, redirect, pushes>>
  /\ UNCHANGED <<fetchPatch, lastOp>>
  /\ UNCHANGED gateVars

\* patchNavigationForProxy() of the href-rewriting strategy: with a base
\* path it rewrites the anchors of the document, connects an observer,
\* registers a click listener and wraps both history methods
patchNavigationForProxy_observer ==
  /\ phase = "page"
  /\ IF navPatch.isPatched
     THEN UNCHANGED <<navPatch, cachedBasePath, results, dom>>
     ELSE /\ Len(results) < MaxPatches
          /\ LET r == getBasePath(location.pathname, cachedBasePath)
             IN /\ cachedBasePath' = r.cache
                /\ results' = Append(results, [path |-> location.pathname,
                                               value |-> r.value])
                /\ IF r.value = Empty
                   THEN /\ navPatch' = [navPatch EXCEPT
                                          !.isPatched = TRUE,
                                          !.basePath = Some(Empty)]
                        /\ UNCHANGED dom
                   ELSE /\ navPatch' =
                             [isPatched |-> TRUE, basePath |-> Some(r.value),
                              wrappers |-> Append(navPatch.wrappers, r.value),
                              listeners |-> Append(navPatch.listeners,
                                                   r.value),
                              observer |-> Some(r.value)]
                        /\ dom' = [dom EXCEPT !.anchor =
                                     IF @ = Null THEN Null
                                     ELSE Some(processAnchor(@[1], r.value))]
  /\ UNCHANGED <<prefix, cookie, location, phase, redirect, pushes>>
  /\ UNCHANGED <<fetchPatch, lastOp>>
  /\ UNCHANGED gateVars

\* cleanupNavigationInterceptor(): disconnect() drops the records the
\* observer has not delivered; listeners, wrappers and timeouts stay
cleanupNavigationInterceptor ==
  /\ phase = "page"
  /\ navPatch' = [navPatch EXCEPT !.observer = Null, !.isPatched = FALSE]
  /\ dom' = [dom EXCEPT !.records = 0]
  /\ UNCHANGED <<prefix, cookie, location, phase>>
  /\ UNCHANGED <<fetchPatch, lastOp>>
  /\ UNCHANGED clientVars
  /\ UNCHANGED gateVars

\* the page adds the anchor to the document: a connected observer's callback
\* runs processNode on it, and the write processAnchor makes is itself an
\* attribute mutation the observer records
anchorInserted(href) ==
  /\ phase = "page"
  /\ results # <<>>
  /\ dom.anchor = Null
  /\ dom.edits < MaxEdits
  /\ LET written == IF navPatch.observer = Null THEN href
                    ELSE processAnchor(href, navPatch.observer[1])
     IN dom' = [dom EXCEPT !.anchor = Some(written),
                           !.original = Some(href),
                           !.edits = @ + 1,
                           !.records = IF written # href THEN @ + 1 ELSE @]
  /\ UNCHANGED <<prefix, cookie, location, phase>>
  /\ UNCHANGED <<fetchPatch, navPatch, lastOp>>
  /\ UNCHANGED clientVars
  /\ UNCHANGED gateVars

\* the page sets the href attribute of the anchor
setHref(href) ==
  /\ phase = "page"
  /\ dom.anchor # Null
  /\ dom.edits < MaxEdits
  /\ dom' = [dom EXCEPT !.anchor = Some(href),
                        !.original = Some(href),
                        !.edits = @ + 1,
                        !.records = IF navPatch.observer # Null
                                    THEN @ + 1 ELSE @]
  /\ UNCHANGED <<prefix, cookie, location, phase>>
  /\ UNCHANGED <<fetchPatch, navPatch, lastOp>>
  /\ UNCHANGED clientVars
  /\ UNCHANGED gateVars

\* the observer's callback receives the recorded attribute mutations: for
\* each of them it reads the href of the anchor and, when the href needs the
\* base path, sets a timeout
mutationCallback ==
  /\ phase = "page"
  /\ navPatch.observer # Null
  /\ dom.records > 0
  /\ LET basePath == navPatch.observer[1]
         href == dom.anchor[1]
         scheduled == IF href # Empty
                           /\ shouldPrependBasePath_observer(href, basePath)
                      THEN dom.records ELSE 0
     IN dom' = [dom EXCEPT !.records = 0,
                           !.timers = @ \o [i \in 1..scheduled |-> basePath]]
  /\ UNCHANGED <<prefix, cookie, location, phase>>
  /\ UNCHANGED <<fetchPatch, navPatch, lastOp>>
  /\ UNCHANGED clientVars
  /\ UNCHANGED gateVars

\* the timeout's function runs: it reads the href again and writes the
\* prefixed href when the href still needs the base path
timeoutCallback ==
  /\ phase = "page"
  /\ dom.timers # <<>>
  /\ LET basePath == Head(dom.timers)
         currentHref == dom.anchor[1]
         written == processAnchor(currentHref, basePath)
     IN dom' = [dom EXCEPT !.anchor = Some(written),
                           !.timers = Tail(@),
                           !.records = IF /\ written # currentHref
                                          /\ navPatch.observer # Null
                                       THEN @ + 1 ELSE @]
  /\ UNCHANGED <<prefix, cookie, location, phase>>
  /\ UNCHANGED <<fetchPatch, navPatch, lastOp>>
  /\ UNCHANGED clientVars
  /\ UNCHANGED gateVars

\* history.pushState or history.replaceState called by the page's code or by
\* the router, through the wrappers installed so far
historyCall_observer(method, url) ==
  /\ phase = "page"
  /\ results # <<>>
  /\ LET committed == historyThroughWrappers(navPatch.wrappers, url)
     IN /\ lastOp' = Some([op |-> method, url |-> url,
                           wrappers |-> navPatch.wrappers,
                           committed |-> committed])
        /\ location' = historyLocation(committed)
  /\ UNCHANGED <<prefix, cookie, phase>>
  /\ UNCHANGED <<fetchPatch, navPatch, dom>>
  /\ UNCHANGED clientVars
  /\ UNCHANGED gateVars

\* a plain click on the anchor: every registered listener sees it; when one
\* of them assigns window.location.href the document is left
click_observer ==
  /\ phase = "page"
  /\ dom.anchor # Null
  /\ LET assigned == clickThroughListeners(navPatch.listeners, dom.anchor[1])
     IN /\ lastOp' = Some([op |-> "click", href |-> dom.anchor[1],
                           listeners |-> navPatch.listeners,
                           defaultPrevented |-> assigned # Null,
                           assigned |-> assigned])
        /\ IF assigned # Null
           THEN /\ location' = parseUrl(assigned[1])
                /\ phase' = "navigating"
                /\ dom' = NoDom
           ELSE UNCHANGED <<location, phase, dom>>
  /\ UNCHANGED <<prefix, cookie>>
  /\ UNCHANGED <<fetchPatch, navPatch>>
  /\ UNCHANGED clientVars
  /\ UNCHANGED gateVars

ObserverNext ==
  \/ patchNavigationForProxy_observer
  \/ cleanupNavigationInterceptor
  \/ \E href \in ObserverHrefs : anchorInserted(href)
  \/ \E href \in ObserverHrefs : setHref(href)
  \/ mutationCallback
  \/ timeoutCallback
  \/ \E method \in {"pushState", "replaceState"}, url \in ObserverHistoryUrls :
       historyCall_observer(method, url)
  \/ click_observer

SpecObserver == ObserverInit /\ [][ObserverNext]_vars

\* the event loop delivers the recorded mutations and runs the timeouts
SpecObserverLive ==
  /\ ObserverInit
  /\ [][ObserverNext]_vars
  /\ WF_vars(mutationCallback)
  /\ WF_vars(timeoutCallback)

(***************************************************************************)
(* Properties of the href-rewriting interceptor's life cycle               *)
(***************************************************************************)
\* C23: while the "already patched" flag is set the only change of the
\* module's state and of what it has installed is the one that
\* cleanupNavigationInterceptor makes, which clears the flag and discards the
\* observer and touches neither listeners nor wrappers; an observer is
\* connected only while the flag is set
C23_FlagGuardsPatch ==
  /\ [](navPatch.observer # Null => navPatch.isPatched)
  /\ [][navPatch.isPatched =>
          \/ navPatch' = navPatch
          \/ navPatch' = [navPatch EXCEPT !.isPatched = FALSE,
                                          !.observer = Null]]_vars

\* after a patch under /env and a cleanup: the flag is clear, the observer is
\* gone, the listener and the history wrapper are still installed
C23_Witness ==
  /\ ~navPatch.isPatched
  /\ navPatch.observer = Null
  /\ navPatch.wrappers = << <<"/", "e", "n", "v">> >>
  /\ navPatch.listeners = << <<"/", "e", "n", "v">> >>

\* does a url need the base path under the rule of the rewriting strategy
NeedsPrefix_observer(url, basePath) ==
  /\ startsWith(url, <<"/">>)
  /\ ~AlreadyPrefixed(url, basePath)
  /\ ~IsNextPath(url)

Quiescent == dom.records = 0 /\ dom.timers = <<>>

\* the href of the anchor is the one the page wrote, or that href with one
\* base path in front of it
PrefixedAtMostOnce ==
  dom.anchor # Null =>
    \/ dom.anchor = dom.original
    \/ \E i \in 1..Len(navPatch.wrappers) :
         dom.anchor = Some(navPatch.wrappers[i] \o dom.original[1])

\* C24: the callback sets at most one timeout for each mutation record it
\* receives; the href never carries more than one base path; when the chain
\* is at rest under a connected observer the href does not need the base path
\* any more; and the chain comes to rest
C24_ObserverQuiesces ==
  /\ [][Len(dom'.timers) <= Len(dom.timers) + dom.records]_vars
  /\ [](PrefixedAtMostOnce)
  /\ []((Quiescent /\ dom.anchor # Null /\ navPatch.observer # Null)
          => ~NeedsPrefix_observer(dom.anchor[1], navPatch.observer[1]))
  /\ []<>Quiescent

(***************************************************************************)
(* The two navigation strategies side by side                              *)
(***************************************************************************)
\* the URL a click leads the browser to under the interception strategy: the
\* href the listener assigns, or the anchor's own href when the listener
\* returns early and the browser follows the link; Null without a link
finalUrl_interception(anchorEl, key, basePath) ==
  IF anchorEl = Null THEN Null
  ELSE LET r == clickHandler(anchorEl, key, basePath)
       IN IF r.href # Null THEN r.href ELSE anchorEl[1].href

\* the same under the rewriting strategy: the observer has rewritten the
\* href attribute before the click; the fallback listener has no test of
\* target, keys or download
finalUrl_rewriting(anchorEl, key, basePath) ==
  IF anchorEl = Null THEN Null
  ELSE IF anchorEl[1].href = Null \/ anchorEl[1].href = Some(Empty)
  THEN anchorEl[1].href
  ELSE LET rewritten == processAnchor(anchorEl[1].href[1], basePath)
           assigned == clickThroughListeners(<<basePath>>, rewritten)
       IN IF assigned # Null THEN assigned ELSE Some(rewritten)

\* C25: under one base path, a click leads the browser to the same URL under
\* both strategies, and a pushState or replaceState call commits the same url
\* under both
C25_StrategiesAgree ==
  /\ (LastOpIs("click") /\ lastOp[1].basePath # Empty) =>
       finalUrl_interception(lastOp[1].anchorEl, lastOp[1].key,
                             lastOp[1].basePath)
         = finalUrl_rewriting(lastOp[1].anchorEl, lastOp[1].key,
                              lastOp[1].basePath)
  /\ (LastOpIsHistory /\ lastOp[1].basePath # Empty) =>
       lastOp[1].committed.url
         = historyWrapper(lastOp[1].url, lastOp[1].basePath)

(***************************************************************************)
(* Properties of the gate's read-only relaxation and of its login redirect *)
(***************************************************************************)
\* the path is /my-usage or lies under it
IsMyUsagePath(p) ==
  p = <<"/", "m", "y", "-", "u", "s", "a", "g",
      "e">> \/ startsWith(p, <<"/", "m", "y", "-", "u", "s", "a", "g",
          "e", "/">>)

\* C26: for a protected request with a cookie the gate calls the validator,
\* with allowReadOnlyAccess = TRUE exactly when the locale-stripped path is
\* /my-usage or lies under it; a protected request with the cookie of a key
\* without web-UI login gets the locale response only on such a path
C26_ReadOnlyRelaxation ==
  (Answered /\ ProtectedRequest) =>
    /\ request.cookie # NoCookie =>
         /\ calls.validate # Null
         /\ calls.validate[1].allowReadOnlyAccess
              = IsMyUsagePath(LocaleStripped(request.pathname))
    /\ request.cookie = NoCookie => calls.validate = Null
    /\ (request.cookie = "readonly" /\ IsLocaleResponse)
         => IsMyUsagePath(LocaleStripped(request.pathname))

\* the request /my-usage/dashboard with the cookie of a read-only key was
\* validated with allowReadOnlyAccess = TRUE and got the locale response
C26_Witness ==
  /\ Answered
  /\ request = [pathname |-> <<"/", "m", "y", "-", "u", "s", "a", "g", "e",
                               "/", "d", "a", "s", "h", "b", "o", "a", "r",
                               "d">>,
                cookie |-> "readonly"]
  /\ calls.validate # Null
  /\ calls.validate[1].allowReadOnlyAccess
  /\ calls.validate[1].session # Null
  /\ IsLocaleResponse

\* the browser has followed a login redirect: its URL carries ?from=
FollowedLoginRedirect ==
  startsWith(location.search, <<"?", "f", "r", "o", "m", "=">>)

\* C27: a request for /<locale>/login is never answered with a login
\* redirect, and neither is the request the browser makes when it follows a
\* login redirect
C27_NoSecondLoginRedirect ==
  Answered =>
    /\ LocaleStripped(request.pathname) = <<"/", "l", "o", "g", "i",
        "n">> => ~IsLoginRedirect
    /\ FollowedLoginRedirect => ~IsLoginRedirect

\* the request carries the cookie of a read-only key and asks for a
\* protected path that is neither /my-usage nor under it
ReadOnlyKeyOutsideMyUsage ==
  /\ Answered
  /\ ProtectedRequest
  /\ request.cookie = "readonly"
  /\ ~IsMyUsagePath(LocaleStripped(request.pathname))

\* the response is the invalid-session document with the header that clears
\* the auth-token cookie
IsInvalidSessionResponse ==
  /\ response.body # Null
  /\ response.body[1].script = "invalidSession"
  /\ response.SetCookie = Some(CLEAR_AUTH_COOKIE)

\* C28: a protected request outside /my-usage with the cookie of a read-only
\* key is answered with the invalid-session document, never with the page;
\* when the browser loads that answer its cookie is gone; and a request for
\* /my-usage without a cookie gets a login redirect
C28_ReadOnlyKeyLosesCookie ==
  /\ [](ReadOnlyKeyOutsideMyUsage =>
          /\ IsInvalidSessionResponse
          /\ IsLoginRedirect
          /\ ~IsLocaleResponse)
  /\ [][ReadOnlyKeyOutsideMyUsage => cookie' = NoCookie]_vars
  /\ []((/\ Answered
         /\ request.cookie = NoCookie
         /\ IsMyUsagePath(LocaleStripped(request.pathname)))
          => IsLoginRedirect)

\* the browser held the cookie of a read-only key, asked for /en/dashboard and
\* has loaded the answer: the cookie is gone and the browser is on its way to
\* the login page
C28_Witness ==
  /\ phase = "navigating"
  /\ hops = 1
  /\ request = [pathname |-> <<"/", "e", "n", "/", "d", "a", "s", "h",
      "b", "o", "a", "r", "d">>, cookie |-> "readonly"]
  /\ cookie = NoCookie
  /\ location.pathname = prefix \o <<"/", "e", "n", "/", "l", "o", "g",
      "i", "n">>

(***************************************************************************)
(* The dashboard layout and the my-usage layout                            *)
(***************************************************************************)
DASHBOARD_ROUTE == <<"/", "d", "a", "s", "h", "b", "o", "a", "r", "d">>

MY_USAGE_ROUTE == <<"/", "m", "y", "-", "u", "s", "a", "g", "e">>

\* getSession({ allowReadOnlyAccess: true })
getSession_readOnly(token) == validateKey(token, TRUE)

\* DashboardLayout for a session: whether it renders its content, and the
\* `to` prop of the ClientRedirect it returns otherwise
DashboardLayout(session) ==
  IF session = Null
  THEN [render |-> FALSE, to |-> Some(<<"/", "l", "o", "g", "i", "n", "?",
      "f", "r", "o", "m", "=", "/", "d", "a", "s", "h", "b", "o", "a",
          "r", "d">>)]
  ELSE IF session[1].role # "admin" /\ ~session[1].canLoginWebUi
  THEN [render |-> FALSE, to |-> Some(MY_USAGE_ROUTE)]
  ELSE [render |-> TRUE, to |-> Null]

\* the my-usage layout sending only administrators to the dashboard
MyUsageLayout_adminOnly(session) ==
  IF session = Null
  THEN [render |-> FALSE, to |-> Some(<<"/", "l", "o", "g", "i", "n", "?",
      "f", "r", "o", "m", "=", "/", "m", "y", "-", "u", "s", "a", "g", "e">>)]
  ELSE IF session[1].role = "admin"
  THEN [render |-> FALSE, to |-> Some(DASHBOARD_ROUTE)]
  ELSE [render |-> TRUE, to |-> Null]

\* MyUsageLayout for a session
MyUsageLayout(session) ==
  IF session = Null
  THEN [render |-> FALSE, to |-> Some(<<"/", "l", "o", "g", "i", "n", "?",
      "f", "r", "o", "m", "=", "/", "m", "y", "-", "u", "s", "a", "g", "e">>)]
  ELSE IF session[1].role = "admin" \/ session[1].canLoginWebUi
  THEN [render |-> FALSE, to |-> Some(DASHBOARD_ROUTE)]
  ELSE [render |-> TRUE, to |-> Null]

\* the browser has loaded /<locale>/dashboard or /<locale>/my-usage under the
\* prefix, with any cookie
LayoutsInit ==
  /\ prefix \in Prefixes
  /\ cookie \in CookieStates
  /\ \E locale \in {en, zhTW}, route \in {DASHBOARD_ROUTE, MY_USAGE_ROUTE} :
       location = [pathname |-> prefix \o <<"/">> \o locale \o route,
                   search |-> Empty]
  /\ phase = "page"
  /\ request = NoRequest
  /\ response = NoResponse
  /\ calls = NoCalls
  /\ hops = 0
  /\ cachedBasePath = Null
  /\ results = <<>>
  /\ redirect = Null
  /\ pushes = 0
  /\ RuntimeIdle

\* the page at window.location lies under app/[locale] + route and its layout
\* has not run yet
LayoutPending(route) ==
  /\ phase = "page"
  /\ lastOp = Null
  /\ redirect = Null
  /\ underPrefix(location.pathname)
  /\ isLocaleInPath(appPath)
  /\ pathWithoutLocale(appPath) = route

\* the layout has run: its outcome is recorded and its ClientRedirect, if
\* any, is mounted
layoutRun(name, session, outcome) ==
  /\ lastOp' = Some([op |-> name, session |-> session,
                     render |-> outcome.render, to |-> outcome.to])
  /\ redirect' = IF outcome.to = Null THEN Null
                 ELSE Some([to |-> outcome.to[1], locale |-> paramsLocale,
                            from |-> Empty, href |-> Null])
  /\ UNCHANGED <<prefix, cookie, location, phase, cachedBasePath, results,
                 pushes>>
  /\ UNCHANGED <<fetchPatch, navPatch, dom>>
  /\ UNCHANGED gateVars

\* app/[locale]/dashboard/layout.tsx
DashboardLayoutRun ==
  /\ LayoutPending(DASHBOARD_ROUTE)
  /\ layoutRun("DashboardLayout", getSession(cookie),
               DashboardLayout(getSession(cookie)))

\* app/[locale]/my-usage/layout.tsx
MyUsageLayoutRun ==
  /\ LayoutPending(MY_USAGE_ROUTE)
  /\ layoutRun("MyUsageLayout", getSession_readOnly(cookie),
               MyUsageLayout(getSession_readOnly(cookie)))

\* the effect of the mounted ClientRedirect assigns window.location.href and
\* the browser loads the page it names
LayoutRedirectFollowed ==
  /\ phase = "page"
  /\ redirect # Null
  /\ hops < MaxHops
  /\ LET fullPath == ClientRedirect_fullPath(location.pathname,
                                             redirect[1].to, redirect[1].locale)
     IN location' = parseUrl(fullPath)
  /\ hops' = hops + 1
  /\ redirect' = Null
  /\ lastOp' = Null
  /\ UNCHANGED <<prefix, cookie, phase, cachedBasePath, results, pushes>>
  /\ UNCHANGED <<request, response, calls>>
  /\ UNCHANGED <<fetchPatch, navPatch, dom>>

LayoutsNext ==
  \/ DashboardLayoutRun
  \/ MyUsageLayoutRun
  \/ LayoutRedirectFollowed

SpecLayouts == LayoutsInit /\ [][LayoutsNext]_vars

(***************************************************************************)
(* Properties of the layouts                                               *)
(***************************************************************************)
SessionShapes == [role : {"admin", "user"}, canLoginWebUi : BOOLEAN]

LastOpIsLayout == LastOpIs("DashboardLayout") \/ LastOpIs("MyUsageLayout")

\* C30: for every session, the dashboard layout renders exactly when the
\* role is admin or the key has canLoginWebUi, the my-usage layout renders
\* exactly when neither holds, and the one that does not render redirects to
\* the other's route; without a session both redirect to the login page; a
\* layout reached through the other's redirect renders, so no page load
\* follows more than one redirect
C30_LayoutsComplementary ==
  /\ \A s \in SessionShapes :
       LET full == s.role = "admin" \/ s.canLoginWebUi
           d == DashboardLayout(Some(s))
           m == MyUsageLayout(Some(s))
       IN /\ d.render = full
          /\ m.render = ~full
          /\ ~d.render => d.to = Some(MY_USAGE_ROUTE)
          /\ ~m.render => m.to = Some(DASHBOARD_ROUTE)
  /\ DashboardLayout(Null).to = Some(<<"/", "l", "o", "g", "i", "n", "?",
      "f", "r", "o", "m", "=", "/", "d", "a", "s", "h", "b", "o", "a",
          "r", "d">>)
  /\ MyUsageLayout(Null).to = Some(<<"/", "l", "o", "g", "i", "n", "?",
      "f", "r", "o", "m", "=", "/", "m", "y", "-", "u", "s", "a", "g", "e">>)
  /\ LastOpIsLayout =>
       /\ lastOp[1].session = Null =>
            /\ ~lastOp[1].render
            /\ startsWith(lastOp[1].to[1], <<"/", "l", "o", "g", "i", "n">>)
       /\ hops >= 1 => lastOp[1].render
  /\ hops <= 1

\* the my-usage layout sent a user with web-UI login to the dashboard, and
\* the dashboard layout rendered
C30_Witness ==
  /\ LastOpIs("DashboardLayout")
  /\ cookie = "user"
  /\ hops = 1
  /\ lastOp[1].render

====
